---- MODULE Spec2Model ----
(***************************************************************************)
(* State-machine model of the map-hack game core:                          *)
(*   - the event/chapter store (useGameStore) with its setTimeout timers,  *)
(*   - the fixed-step scheduler (useFixedFramerate),                       *)
(*   - the movement controller (PlayerController), continuous and grid.    *)
(*                                                                         *)
(* Units.  Store time is counted in ticks of 100 ms.  Scheduler time is    *)
(* counted in 1/120 s (one step interval of 1/24 s is 5 units, the 200 ms  *)
(* clamp is 24 units).  Controller lengths are counted in 1/1000 world     *)
(* unit, velocities in 1/1000 world unit per second, controller time in    *)
(* 1/2400 s (dt = 1/24 s is 100 units), angles in 1/100 degree.            *)
(***************************************************************************)
EXTENDS Integers, Sequences, FiniteSets, TLC

VARIABLES
    \* ---- store state (useGameStore.ts:25-32) ----
    chapter, visitedEvents, isTransitioning, leftMovement, rightMovement,
    cartItems, activeEffect, notification,
    effectTimeoutId,   \* module-level let effectTimeoutId (0 models null)
    timers,            \* pending setTimeout callbacks of the store
    nextTimerId,       \* the id window.setTimeout hands out next
    \* ---- observation of the store's callers ----
    call,              \* the last store operation called, its argument, its return value
    nOps,              \* number of store operations called so far
    addLog,            \* the labels passed to addToCart so far, in call order
    lastGo,            \* bookkeeping about the last goToChapter call
    lastEffect,        \* bookkeeping about the last setActiveEffect call
    \* ---- fixed-step scheduler (useFixedFramerate) ----
    accumulated,       \* accumulated.current
    sched,             \* bookkeeping about the frames fed to shouldUpdate
    \* ---- movement controller (PlayerController) ----
    cfg,               \* the props the scene mounted the controller with
    pos, vel, lastLookDir,
    gridCurrentPos, gridTargetPos, gridCurrentFacing, gridTargetFacing,
    gridCooldown, prevKeys,
    camera,            \* camera.position and the point passed to camera.lookAt
    probe,             \* bookkeeping about the last frame of the controller
    \* ---- chapter scenes (Ch2Scene, Ch3Scene) ----
    scene,             \* the mounted scene's local state and bookkeeping about it
    script,            \* the state of the timed scripts of the scenes and screens
    \* ---- collision queries (collidesWithWalls) ----
    query              \* the last call of collidesWithWalls and what it returned

storeVars == <<chapter, visitedEvents, isTransitioning, leftMovement, rightMovement,
               cartItems, activeEffect, notification, effectTimeoutId, timers,
               nextTimerId>>
obsVars == <<call, nOps, addLog, lastGo, lastEffect>>
schedVars == <<accumulated, sched>>
ctrlVars == <<cfg, pos, vel, lastLookDir, gridCurrentPos, gridTargetPos,
              gridCurrentFacing, gridTargetFacing, gridCooldown, prevKeys,
              camera, probe>>
simVars == <<schedVars, ctrlVars>>
sceneVars == <<scene, script>>
queryVars == <<query>>
frameVars == <<simVars, sceneVars, queryVars>>
vars == <<storeVars, obsVars, frameVars>>

(***************************************************************************)
(* Bounds of the exploration.                                              *)
(***************************************************************************)
MaxOps == 3          \* store operations called in one run of Spec
MaxAdds == 6         \* addToCart calls in one run of SpecCart
MaxOther == 1        \* other store operations in one run of SpecCart
MaxDur == 2          \* largest effect duration passed, in ticks
MaxMovement == 1     \* cap of the movement tallies explored

(***************************************************************************)
(* Program constants of the store.                                         *)
(***************************************************************************)
FadeInDelay == 4     \* setTimeout(..., 400)
FadeOutDelay == 8    \* setTimeout(..., 800)
CartCap == 5         \* cartItems.length < 5

Chapters == {"START", "INTRO", "CH1", "CH2", "CH3", "CH4", "CH5", "END"}
GoTargets == {"CH1", "CH2"}
EventIds == {"e1", "e2"}
Medicines == {"m1", "m2"}
Effects == {"null", "A", "B"}          \* "null" models the null effect
Notifications == {"null", "n1"}
Directions == {"left", "right"}

NoCall == [op |-> "none", arg |-> "-", val |-> "void"]
NoGo == [called |-> FALSE, from |-> "-", to |-> "-", since |-> 0, solo |-> FALSE]
NoEffect == [called |-> FALSE, effect |-> "null", dur |-> 0, since |-> 0,
             superseded |-> FALSE, afterCancel |-> FALSE]

\* The call before this one was setActiveEffect(null) and cancelled a timer.
AfterCancel == lastEffect.called /\ lastEffect.effect = "null" /\ lastEffect.superseded

\* Ticks since a call are counted up to one past the longest delay of interest.
SinceCapGo == FadeOutDelay + 1
SinceCapEffect == MaxDur + 1

\* The optional duration argument: omitted (undefined) or a number of ticks.
Undefined == -1
Durations == {Undefined} \cup (0..MaxDur)
Truthy(duration) == duration # Undefined /\ duration # 0

Min(a, b) == IF a < b THEN a ELSE b
Max(a, b) == IF a > b THEN a ELSE b
Abs(n) == IF n < 0 THEN -n ELSE n

(***************************************************************************)
(* Timers.  A pending timer is [id, kind, arg, rem]: rem is the time left. *)
(* window.setTimeout hands out increasing positive ids.  Timers whose      *)
(* delay has run out fire in the order of their creation.                  *)
(***************************************************************************)
setTimeout(ts, id, kind, arg, delay) ==
    ts \cup {[id |-> id, kind |-> kind, arg |-> arg, rem |-> delay]}

clearTimeout(ts, id) == {t \in ts : t.id # id}

TransitionPending == \E t \in timers : t.kind \in {"chapter", "fadeEnd"}

(***************************************************************************)
(* Placeholders of the scheduler and of an unmounted controller.           *)
(***************************************************************************)
NoSched == [frames |-> 0, total |-> 0, clamped |-> 0, fired |-> 0,
            maxDelta |-> 0, last |-> 0]
Vec(x, z) == [x |-> x, z |-> z]
NoProbe == [stepped |-> FALSE, keys |-> {}, from |-> Vec(0, 0), tried |-> Vec(0, 0),
            resolved |-> Vec(0, 0), branch |-> "none", accepted |-> FALSE,
            reported |-> Vec(0, 0), callbacks |-> 0, sinceCommit |-> 0, commits |-> 0,
            idle |-> 0, rights |-> 0, moveBranch |-> "none", moveFrom |-> Vec(0, 0),
            turnBranch |-> "none", turnFrom |-> 0]
NoCamera == [x |-> 0, y |-> 0, z |-> 0, aim |-> "default"]
NoBounds == [minX |-> 0, maxX |-> 0, minZ |-> 0, maxZ |-> 0]
NoCfg == [kind |-> "none", mode |-> "1st", hasBounds |-> FALSE, bounds |-> NoBounds,
          hasWalls |-> FALSE, walls |-> <<>>, start |-> Vec(0, 0), startY |-> 0,
          look |-> Vec(0, -1), cell |-> 0, gridInputCooldown |-> 0]

InitSched ==
    /\ accumulated = 0
    /\ sched = NoSched

\* The one-shot events that guard the exits of the street scene and of Ch3.
ExitIds == {"ch2_exit", "ch3_exit"}

\* The medicines of Ch3 that are part of the runs (the first two of the table).
MedIdx == {1, 2}

\* No scene is part of the run.
NoScene == [gen |-> 0, collected |-> {}, zone |-> "none", clock |-> 0, fresh |-> FALSE,
            polls |-> 0, skips |-> 0, notifTimer |-> 0,
            exitCalls |-> [x \in ExitIds |-> 0], exitSeen |-> [x \in ExitIds |-> 0],
            pickups |-> [i \in MedIdx |-> 0]]

\* No scripted scene mounted yet.
NoScript == [mounted |-> "none", phase |-> 0, doorOpened |-> FALSE,
             ch4Phase |-> "black", cutscenePhase |-> "null", clicks |-> 0,
             hud |-> 0, rendered |-> FALSE]

InitSceneNone == scene = NoScene /\ script = NoScript

\* No call of collidesWithWalls observed yet.
NoQuery == [asked |-> FALSE, px |-> 0, pz |-> 0, walls |-> <<>>, hit |-> FALSE]
InitQueryNone == query = NoQuery

InitCtrlNone ==
    /\ cfg = NoCfg
    /\ pos = [x |-> 0, z |-> 0]
    /\ vel = [x |-> 0, z |-> 0]
    /\ lastLookDir = [x |-> 0, z |-> 0]
    /\ gridCurrentPos = [x |-> 0, z |-> 0]
    /\ gridTargetPos = [x |-> 0, z |-> 0]
    /\ gridCurrentFacing = 0
    /\ gridTargetFacing = 0
    /\ gridCooldown = 0
    /\ prevKeys = {}
    /\ camera = NoCamera
    /\ probe = NoProbe

InitStoreFields ==
    /\ visitedEvents = {}
    /\ isTransitioning = FALSE
    /\ leftMovement = 0
    /\ rightMovement = 0
    /\ cartItems = <<>>
    /\ activeEffect = "null"
    /\ notification = "null"
    /\ effectTimeoutId = 0
    /\ timers = {}
    /\ nextTimerId = 1
    /\ call = NoCall
    /\ nOps = 0
    /\ addLog = <<>>
    /\ lastGo = NoGo
    /\ lastEffect = NoEffect

InitStore ==
    /\ chapter = "START"
    /\ InitStoreFields

Called(op, arg, val) ==
    /\ nOps' = nOps + 1
    /\ call' = [op |-> op, arg |-> arg, val |-> val]

\* Variant of goToChapter that swaps the chapter together with the end of the fade.
goToChapter_SwapAtEnd(c) ==
    /\ UNCHANGED frameVars
    /\ Called("goToChapter", c, "void")
    /\ isTransitioning' = TRUE
    /\ LET t1 == setTimeout(timers, nextTimerId, "chapter", c, FadeOutDelay)
       IN  timers' = setTimeout(t1, nextTimerId + 1, "fadeEnd", "-", FadeOutDelay)
    /\ nextTimerId' = nextTimerId + 2
    /\ lastGo' = [called |-> TRUE, from |-> chapter, to |-> c, since |-> 0,
                  solo |-> ~TransitionPending]
    /\ UNCHANGED <<chapter, visitedEvents, leftMovement, rightMovement, cartItems,
                   activeEffect, notification, effectTimeoutId, lastEffect, addLog>>

(***************************************************************************)
(* goToChapter: set the flag now, swap the chapter after 400 ms, clear the *)
(* flag after 800 ms.  Nothing is cancelled.                               *)
(***************************************************************************)
\* Variant of goToChapter that ignores a call made while a transition is pending.
goToChapterSet_Deduplicated(c) ==
    /\ Called("goToChapter", c, "void")
    /\ IF TransitionPending
       THEN UNCHANGED <<isTransitioning, timers, nextTimerId>>
       ELSE /\ isTransitioning' = TRUE
            /\ LET t1 == setTimeout(timers, nextTimerId, "chapter", c, FadeInDelay)
               IN  timers' = setTimeout(t1, nextTimerId + 1, "fadeEnd", "-", FadeOutDelay)
            /\ nextTimerId' = nextTimerId + 2
    /\ lastGo' = [called |-> TRUE, from |-> chapter, to |-> c, since |-> 0,
                  solo |-> ~TransitionPending]
    /\ UNCHANGED <<chapter, visitedEvents, leftMovement, rightMovement, cartItems,
                   activeEffect, notification, effectTimeoutId, lastEffect, addLog>>

\* Variant of goToChapter that clears the active effect and its timer.
goToChapterSet_ClearsEffect(c) ==
    /\ Called("goToChapter", c, "void")
    /\ isTransitioning' = TRUE
    /\ LET kept == IF effectTimeoutId # 0 THEN clearTimeout(timers, effectTimeoutId)
                                          ELSE timers
           t1 == setTimeout(kept, nextTimerId, "chapter", c, FadeInDelay)
       IN  timers' = setTimeout(t1, nextTimerId + 1, "fadeEnd", "-", FadeOutDelay)
    /\ nextTimerId' = nextTimerId + 2
    /\ activeEffect' = "null"
    /\ effectTimeoutId' = 0
    /\ lastGo' = [called |-> TRUE, from |-> chapter, to |-> c, since |-> 0,
                  solo |-> ~TransitionPending]
    /\ UNCHANGED <<chapter, visitedEvents, leftMovement, rightMovement, cartItems,
                   notification, lastEffect, addLog>>

goToChapterSet(c) ==
    /\ Called("goToChapter", c, "void")
    /\ isTransitioning' = TRUE
    /\ LET t1 == setTimeout(timers, nextTimerId, "chapter", c, FadeInDelay)
       IN  timers' = setTimeout(t1, nextTimerId + 1, "fadeEnd", "-", FadeOutDelay)
    /\ nextTimerId' = nextTimerId + 2
    /\ lastGo' = [called |-> TRUE, from |-> chapter, to |-> c, since |-> 0,
                  solo |-> ~TransitionPending]
    /\ UNCHANGED <<chapter, visitedEvents, leftMovement, rightMovement, cartItems,
                   activeEffect, notification, effectTimeoutId, lastEffect, addLog>>

goToChapter(c) ==
    /\ UNCHANGED frameVars
    /\ goToChapterSet(c)

\* Variant of triggerEvent without the visitedEvents.has(id) early return.
triggerEvent_NoHasCheck(e) ==
    /\ UNCHANGED frameVars
    /\ Called("triggerEvent", e, "true")
    /\ visitedEvents' = visitedEvents \cup {e}
    /\ UNCHANGED <<chapter, isTransitioning, leftMovement, rightMovement, cartItems,
                   activeEffect, notification, effectTimeoutId, timers,
                   nextTimerId, lastGo, lastEffect, addLog>>

(***************************************************************************)
(* triggerEvent: false if already visited, else record and return true.    *)
(***************************************************************************)
triggerEvent(e) ==
    /\ UNCHANGED frameVars
    /\ IF e \in visitedEvents
       THEN /\ Called("triggerEvent", e, "false")
            /\ UNCHANGED visitedEvents
       ELSE /\ Called("triggerEvent", e, "true")
            /\ visitedEvents' = visitedEvents \cup {e}
    /\ UNCHANGED <<chapter, isTransitioning, leftMovement, rightMovement, cartItems,
                   activeEffect, notification, effectTimeoutId, timers,
                   nextTimerId, lastGo, lastEffect, addLog>>

\* Variant of addMovement that starts the other side's tally afresh.
addMovementSet_ResetsOther(d, amount) ==
    /\ Called("addMovement", d, "void")
    /\ IF d = "left"
       THEN /\ leftMovement' = leftMovement + amount
            /\ rightMovement' = 0
       ELSE /\ rightMovement' = rightMovement + amount
            /\ leftMovement' = 0

\* The state change of addMovement, shared with the controller that calls it.
addMovementSet(d, amount) ==
    /\ Called("addMovement", d, "void")
    /\ IF d = "left"
       THEN /\ leftMovement' = leftMovement + amount
            /\ UNCHANGED rightMovement
       ELSE /\ rightMovement' = rightMovement + amount
            /\ UNCHANGED leftMovement

addMovement(d, amount) ==
    /\ UNCHANGED frameVars
    /\ addMovementSet(d, amount)
    /\ UNCHANGED <<chapter, visitedEvents, isTransitioning, cartItems,
                   activeEffect, notification, effectTimeoutId, timers,
                   nextTimerId, lastGo, lastEffect, addLog>>

\* Variant of addToCart with the cap test off by one (length <= 5).
addToCart_OffByOne(m) ==
    /\ UNCHANGED frameVars
    /\ Called("addToCart", m, "void")
    /\ addLog' = Append(addLog, m)
    /\ IF Len(cartItems) <= CartCap
       THEN cartItems' = Append(cartItems, m)
       ELSE UNCHANGED cartItems
    /\ UNCHANGED <<chapter, visitedEvents, isTransitioning, leftMovement,
                   rightMovement, activeEffect, notification, effectTimeoutId,
                   timers, nextTimerId, lastGo, lastEffect>>

addToCart(m) ==
    /\ UNCHANGED frameVars
    /\ Called("addToCart", m, "void")
    /\ addLog' = Append(addLog, m)
    /\ IF Len(cartItems) < CartCap
       THEN cartItems' = Append(cartItems, m)
       ELSE UNCHANGED cartItems
    /\ UNCHANGED <<chapter, visitedEvents, isTransitioning, leftMovement,
                   rightMovement, activeEffect, notification, effectTimeoutId,
                   timers, nextTimerId, lastGo, lastEffect>>

\* Variant of setActiveEffect that does not cancel the pending auto-clear.
setActiveEffect_NoCancel(effect, duration) ==
    /\ UNCHANGED frameVars
    /\ Called("setActiveEffect", effect, "void")
    /\ activeEffect' = effect
    /\ IF effect # "null" /\ Truthy(duration)
       THEN /\ effectTimeoutId' = nextTimerId
            /\ timers' = setTimeout(timers, nextTimerId,
                                    "effectClear", effect, duration)
            /\ nextTimerId' = nextTimerId + 1
       ELSE UNCHANGED <<timers, effectTimeoutId, nextTimerId>>
    /\ lastEffect' = [called |-> TRUE, effect |-> effect, dur |-> duration,
                      since |-> 0,
                      superseded |-> \E t \in timers : t.kind = "effectClear",
                      afterCancel |-> AfterCancel]
    /\ UNCHANGED <<chapter, visitedEvents, isTransitioning, leftMovement,
                   rightMovement, cartItems, notification, lastGo, addLog>>

\* Variant of setActiveEffect that cancels the pending timer only when it
\* sets a new effect, not when it clears with null.
setActiveEffect_NullKeepsTimer(effect, duration) ==
    /\ UNCHANGED frameVars
    /\ Called("setActiveEffect", effect, "void")
    /\ activeEffect' = effect
    /\ LET cleared == IF effectTimeoutId # 0 /\ effect # "null"
                      THEN clearTimeout(timers, effectTimeoutId)
                      ELSE timers
       IN  IF effect # "null" /\ Truthy(duration)
           THEN /\ effectTimeoutId' = nextTimerId
                /\ timers' = setTimeout(cleared, nextTimerId,
                                        "effectClear", effect, duration)
                /\ nextTimerId' = nextTimerId + 1
           ELSE /\ timers' = cleared
                /\ UNCHANGED <<effectTimeoutId, nextTimerId>>
    /\ lastEffect' = [called |-> TRUE, effect |-> effect, dur |-> duration,
                      since |-> 0,
                      superseded |-> \E t \in timers : t.kind = "effectClear",
                      afterCancel |-> AfterCancel]
    /\ UNCHANGED <<chapter, visitedEvents, isTransitioning, leftMovement,
                   rightMovement, cartItems, notification, lastGo, addLog>>

\* Variant of setActiveEffect that does not keep the id of the timer it
\* schedules, so that a later call cannot cancel it.
setActiveEffect_ForgetsId(effect, duration) ==
    /\ UNCHANGED frameVars
    /\ Called("setActiveEffect", effect, "void")
    /\ activeEffect' = effect
    /\ LET cleared == IF effectTimeoutId # 0
                      THEN clearTimeout(timers, effectTimeoutId)
                      ELSE timers
       IN  IF effect # "null" /\ Truthy(duration)
           THEN /\ timers' = setTimeout(cleared, nextTimerId,
                                        "effectClear", effect, duration)
                /\ nextTimerId' = nextTimerId + 1
                /\ UNCHANGED effectTimeoutId
           ELSE /\ timers' = cleared
                /\ UNCHANGED <<effectTimeoutId, nextTimerId>>
    /\ lastEffect' = [called |-> TRUE, effect |-> effect, dur |-> duration,
                      since |-> 0,
                      superseded |-> \E t \in timers : t.kind = "effectClear",
                      afterCancel |-> AfterCancel]
    /\ UNCHANGED <<chapter, visitedEvents, isTransitioning, leftMovement,
                   rightMovement, cartItems, notification, lastGo, addLog>>

(***************************************************************************)
(* setActiveEffect(effect, duration): an omitted duration and the duration *)
(* 0 are both falsy.  clearTimeout does not reset the id.                  *)
(***************************************************************************)
setActiveEffect(effect, duration) ==
    /\ UNCHANGED frameVars
    /\ Called("setActiveEffect", effect, "void")
    /\ activeEffect' = effect
    /\ LET cleared == IF effectTimeoutId # 0
                      THEN clearTimeout(timers, effectTimeoutId)
                      ELSE timers
       IN  IF effect # "null" /\ Truthy(duration)
           THEN /\ effectTimeoutId' = nextTimerId
                /\ timers' = setTimeout(cleared, nextTimerId,
                                        "effectClear", effect, duration)
                /\ nextTimerId' = nextTimerId + 1
           ELSE /\ timers' = cleared
                /\ UNCHANGED <<effectTimeoutId, nextTimerId>>
    /\ lastEffect' = [called |-> TRUE, effect |-> effect, dur |-> duration,
                      since |-> 0,
                      superseded |-> \E t \in timers : t.kind = "effectClear",
                      afterCancel |-> AfterCancel]
    /\ UNCHANGED <<chapter, visitedEvents, isTransitioning, leftMovement,
                   rightMovement, cartItems, notification, lastGo, addLog>>

setNotification(n) ==
    /\ UNCHANGED frameVars
    /\ Called("setNotification", n, "void")
    /\ notification' = n
    /\ UNCHANGED <<chapter, visitedEvents, isTransitioning, leftMovement,
                   rightMovement, cartItems, activeEffect, effectTimeoutId,
                   timers, nextTimerId, lastGo, lastEffect, addLog>>

(***************************************************************************)
(* Timer callbacks.  A timer whose delay has run out fires; of the timers   *)
(* that are due, the one created first fires first.                        *)
(***************************************************************************)
Due(t) ==
    /\ t \in timers
    /\ t.rem = 0
    /\ \A u \in timers : u.rem = 0 => t.id <= u.id

\* Variant of the chapter swap that starts the new chapter with no events visited.
FireChapterSet_ForgetsEvents(t) ==
    /\ Due(t) /\ t.kind = "chapter"
    /\ chapter' = t.arg
    /\ visitedEvents' = {}
    /\ timers' = timers \ {t}
    /\ UNCHANGED <<isTransitioning, leftMovement, rightMovement,
                   cartItems, activeEffect, notification, effectTimeoutId,
                   nextTimerId, obsVars>>

FireChapterSet(t) ==
    /\ Due(t) /\ t.kind = "chapter"
    /\ chapter' = t.arg
    /\ timers' = timers \ {t}
    /\ UNCHANGED <<visitedEvents, isTransitioning, leftMovement, rightMovement,
                   cartItems, activeEffect, notification, effectTimeoutId,
                   nextTimerId, obsVars>>

FireChapter(t) ==
    /\ UNCHANGED frameVars
    /\ FireChapterSet(t)

FireFadeEnd(t) ==
    /\ UNCHANGED frameVars
    /\ Due(t) /\ t.kind = "fadeEnd"
    /\ isTransitioning' = FALSE
    /\ timers' = timers \ {t}
    /\ UNCHANGED <<chapter, visitedEvents, leftMovement, rightMovement,
                   cartItems, activeEffect, notification, effectTimeoutId,
                   nextTimerId, obsVars>>

FireEffectClear(t) ==
    /\ UNCHANGED frameVars
    /\ Due(t) /\ t.kind = "effectClear"
    /\ activeEffect' = "null"
    /\ effectTimeoutId' = 0
    /\ timers' = timers \ {t}
    /\ UNCHANGED <<chapter, visitedEvents, isTransitioning, leftMovement,
                   rightMovement, cartItems, notification, nextTimerId, obsVars>>

(***************************************************************************)
(* 100 ms pass.  Time does not pass over a timer that is due.              *)
(***************************************************************************)
TickSet ==
    /\ \A t \in timers : t.rem > 0
    /\ timers' = {[t EXCEPT !.rem = t.rem - 1] : t \in timers}
    /\ lastGo' = IF lastGo.called
                 THEN [lastGo EXCEPT !.since = Min(lastGo.since + 1, SinceCapGo)]
                 ELSE lastGo
    /\ lastEffect' = IF lastEffect.called
                     THEN [lastEffect EXCEPT
                              !.since = Min(lastEffect.since + 1, SinceCapEffect)]
                     ELSE lastEffect
    /\ UNCHANGED <<chapter, visitedEvents, isTransitioning, leftMovement,
                   rightMovement, cartItems, activeEffect, notification,
                   effectTimeoutId, nextTimerId, call, nOps, addLog>>

Tick ==
    /\ UNCHANGED frameVars
    /\ TickSet

(***************************************************************************)
(* The store driven by arbitrary callers: at most MaxOps operations, at    *)
(* any times.                                                              *)
(***************************************************************************)
TallyRoom(d, a) == IF d = "left" THEN leftMovement + a <= MaxMovement
                                 ELSE rightMovement + a <= MaxMovement

Next ==
    \/ nOps < MaxOps /\ \E c \in GoTargets : goToChapter(c)
    \/ nOps < MaxOps /\ \E e \in EventIds : triggerEvent(e)
    \/ nOps < MaxOps /\ \E d \in Directions : \E a \in 1..MaxMovement :
           TallyRoom(d, a) /\ addMovement(d, a)
    \/ nOps < MaxOps /\ \E m \in Medicines : addToCart(m)
    \/ nOps < MaxOps /\ \E f \in Effects : \E d \in Durations : setActiveEffect(f, d)
    \/ nOps < MaxOps /\ \E n \in Notifications : setNotification(n)
    \/ \E t \in timers : FireChapter(t)
    \/ \E t \in timers : FireFadeEnd(t)
    \/ \E t \in timers : FireEffectClear(t)
    \/ Tick

Init == InitStore /\ InitSched /\ InitCtrlNone /\ InitSceneNone /\ InitQueryNone

Spec == Init /\ [][Next]_vars

(***************************************************************************)
(* The store under chapter buttons: up to MaxGo goToChapter calls at any   *)
(* times.  The browser fires every timer that is due and time goes on.     *)
(***************************************************************************)
MaxGo == 3           \* goToChapter calls in one run of SpecGo

TimePasses ==
    \/ \E t \in timers : FireChapter(t)
    \/ \E t \in timers : FireFadeEnd(t)
    \/ Tick

NextGo ==
    \/ nOps < MaxGo /\ \E c \in GoTargets : goToChapter(c)
    \/ TimePasses

SpecGo == Init /\ [][NextGo]_vars /\ WF_vars(TimePasses)

(***************************************************************************)
(* The store driven by a caller that fills the cart: up to MaxAdds         *)
(* addToCart calls and up to MaxOther other operations, at any times.      *)
(***************************************************************************)
OtherRoom == nOps - Len(addLog) < MaxOther

NextCart ==
    \/ Len(addLog) < MaxAdds /\ \E m \in Medicines : addToCart(m)
    \/ OtherRoom /\ \E c \in GoTargets : goToChapter(c)
    \/ OtherRoom /\ \E e \in EventIds : triggerEvent(e)
    \/ OtherRoom /\ \E d \in Directions : \E a \in 1..MaxMovement :
           TallyRoom(d, a) /\ addMovement(d, a)
    \/ OtherRoom /\ \E f \in Effects : \E d \in Durations : setActiveEffect(f, d)
    \/ OtherRoom /\ \E n \in Notifications : setNotification(n)
    \/ \E t \in timers : FireChapter(t)
    \/ \E t \in timers : FireFadeEnd(t)
    \/ \E t \in timers : FireEffectClear(t)
    \/ Tick

SpecCart == Init /\ [][NextCart]_vars

(***************************************************************************)
(* Fixed-step scheduler (useFixedFramerate).  Time in 1/120 s, so that the *)
(* step interval 1/fps and the 200 ms clamp are whole numbers.             *)
(***************************************************************************)
FPS == 24             \* useFixedFramerate(24)
ClampCeiling == 24    \* Math.min(delta, 0.2): 0.2 s = 24/120 s
MaxFrames == 6        \* frames fed to the scheduler in one run of SpecSched
MaxDelta == 6         \* frame times 0..MaxDelta are explored
HitchDelta == 600     \* one long frame (5 s)

Interval == 120 \div FPS

\* The older variant of the hook: no clamp, one interval subtracted per call.
shouldUpdate_Older(acc, delta) ==
    LET sum == acc + delta
    IN  IF sum >= Interval
        THEN [acc |-> sum - Interval, fire |-> TRUE]
        ELSE [acc |-> sum, fire |-> FALSE]

\* A variant that drops the remainder when it fires.
shouldUpdate_DropRemainder(acc, delta) ==
    LET sum == acc + Min(delta, ClampCeiling)
    IN  IF sum >= Interval
        THEN [acc |-> 0, fire |-> TRUE]
        ELSE [acc |-> sum, fire |-> FALSE]

\* shouldUpdate(delta): the new accumulator and the value returned.
shouldUpdate(acc, delta) ==
    LET sum == acc + Min(delta, ClampCeiling)
    IN  IF sum >= Interval
        THEN [acc |-> sum % Interval, fire |-> TRUE]
        ELSE [acc |-> sum, fire |-> FALSE]

\* Bookkeeping of one frame: time fed, time after the clamp, signals returned.
Observe(delta, fire) ==
    [frames |-> sched.frames + 1,
     total |-> sched.total + delta,
     clamped |-> sched.clamped + Min(delta, ClampCeiling),
     fired |-> sched.fired + (IF fire THEN 1 ELSE 0),
     maxDelta |-> Max(sched.maxDelta, delta),
     last |-> delta]

\* One render frame that only consults the scheduler.
SchedFrame(delta) ==
    /\ sched.frames < MaxFrames
    /\ LET r == shouldUpdate(accumulated, delta)
       IN  /\ accumulated' = r.acc
           /\ sched' = Observe(delta, r.fire)
    /\ UNCHANGED <<storeVars, obsVars, ctrlVars, sceneVars, queryVars>>

FrameDeltas == (0..MaxDelta) \cup {2 * Interval, HitchDelta}

NextSched == \E d \in FrameDeltas : SchedFrame(d)

SpecSched == Init /\ [][NextSched]_vars

(***************************************************************************)
(* Movement controller (PlayerController).                                 *)
(*                                                                         *)
(* Lengths are whole numbers of 1/24000 world unit and velocities whole    *)
(* numbers of 1/1000 world unit per second, so that one step of dt = 1/24  *)
(* s moves a position by exactly the number held in the velocity.  Time is *)
(* counted in 1/2400 s (dt is 100).  Angles are counted in 1/100 degree.   *)
(* The exponentials exp(-FRICTION dt), 1 - exp(-GRID_POS_LERP dt) and      *)
(* 1 - exp(-GRID_FACING_LERP dt) are taken to four decimals and products   *)
(* with them are truncated toward zero.  The initial look direction is one *)
(* of the four axis directions, as in every scene.                         *)
(***************************************************************************)
ACCEL == 18                    \* const ACCEL
MAX_SPEED == 4                 \* const MAX_SPEED
FrictionFactor == 7788         \* exp(-FRICTION * dt) = exp(-0.25), in 1/10000
GridPosLerp == 3408            \* 1 - exp(-GRID_POS_LERP * dt), in 1/10000
GridFacingLerp == 3935         \* 1 - exp(-GRID_FACING_LERP * dt), in 1/10000
SNAP_UNIT == 1200              \* 0.05 world unit
PLAYER_HALF == 7200            \* 0.3 world unit
GRID_INPUT_COOLDOWN == 528     \* 0.22 s
LookThreshold == 100           \* 0.1 world unit per second
QuarterTurn == 9000            \* Math.PI / 2

Unit == 1000 * FPS             \* one world unit
FinePerMilli == Unit \div 1000
EyeHeight == (18 * Unit) \div 10
Dt == 2400 \div FPS            \* dt = 1 / 24 s
AccelStep == (ACCEL * 1000) \div FPS
MaxSpeed == MAX_SPEED * 1000
HalfTurn == 2 * QuarterTurn
FullTurn == 4 * QuarterTurn

Sign(n) == IF n < 0 THEN -1 ELSE IF n > 0 THEN 1 ELSE 0

\* n * num / 10000, truncated toward zero.
Scale(n, num) == Sign(n) * ((Abs(n) * num) \div 10000)

\* a / b truncated toward zero, b > 0.
TruncDiv(a, b) == Sign(a) * (Abs(a) \div b)

\* The remainder operator % of the language: the sign of the dividend.
JsRem(a, b) == a - b * TruncDiv(a, b)

RECURSIVE IsqrtBetween(_, _, _)
IsqrtBetween(n, lo, hi) ==
    IF lo >= hi THEN lo
    ELSE LET mid == (lo + hi + 1) \div 2
         IN  IF mid * mid <= n THEN IsqrtBetween(n, mid, hi)
                               ELSE IsqrtBetween(n, lo, mid - 1)

\* floor of the square root
Isqrt(n) == IsqrtBetween(n, 0, 2 * MaxSpeed)

\* snap(v, unit): Math.round(v / unit) * unit, Math.round rounding halves up.
snap(v, unit) == unit * ((2 * v + unit) \div (2 * unit))

\* shortestAngleDelta(from, to)
shortestAngleDelta(from, to) ==
    LET d == JsRem(JsRem(to - from, FullTurn) + FullTurn, FullTurn)
    IN  IF d > HalfTurn THEN d - FullTurn ELSE d

\* Math.round(Math.sin(yaw)) and Math.round(Math.cos(yaw)) for a yaw that is
\* a whole number of quarter turns.
RoundSin(yaw) ==
    LET q == ((yaw % FullTurn) + FullTurn) % FullTurn
    IN  IF q = QuarterTurn THEN 1 ELSE IF q = 3 * QuarterTurn THEN -1 ELSE 0

RoundCos(yaw) ==
    LET q == ((yaw % FullTurn) + FullTurn) % FullTurn
    IN  IF q = 0 THEN 1 ELSE IF q = HalfTurn THEN -1 ELSE 0

\* Math.atan2(look.x, look.z) for an axis direction.
Yaw(look) ==
    IF look.z > 0 THEN 0
    ELSE IF look.z < 0 THEN HalfTurn
    ELSE IF look.x > 0 THEN QuarterTurn ELSE -QuarterTurn

\* Variant of the test of one wall with closed comparisons.
WallHit_Closed(px, pz, w) ==
    LET pMinX == px - PLAYER_HALF
        pMaxX == px + PLAYER_HALF
        pMinZ == pz - PLAYER_HALF
        pMaxZ == pz + PLAYER_HALF
    IN  pMaxX >= w.minX /\ pMinX <= w.maxX /\ pMaxZ >= w.minZ /\ pMinZ <= w.maxZ

\* The test of one wall in the loop of collidesWithWalls.
WallHit(px, pz, w) ==
    LET pMinX == px - PLAYER_HALF
        pMaxX == px + PLAYER_HALF
        pMinZ == pz - PLAYER_HALF
        pMaxZ == pz + PLAYER_HALF
    IN  pMaxX > w.minX /\ pMinX < w.maxX /\ pMaxZ > w.minZ /\ pMinZ < w.maxZ

\* for (const w of walls) from the i-th wall on: return true at the first
\* hit, false when the list is exhausted.
RECURSIVE WallLoop(_, _, _, _)
WallLoop(px, pz, walls, i) ==
    IF i > Len(walls) THEN FALSE
    ELSE IF WallHit(px, pz, walls[i]) THEN TRUE
    ELSE WallLoop(px, pz, walls, i + 1)

\* collidesWithWalls(px, pz, walls).
collidesWithWalls(px, pz, walls) == WallLoop(px, pz, walls, 1)

\* Variant of the key reading in which the space bar also means forward.
Held_Loose(k, dir) ==
    CASE dir = "left" -> "ArrowLeft" \in k \/ "KeyA" \in k
      [] dir = "right" -> "ArrowRight" \in k \/ "KeyD" \in k
      [] dir = "forward" -> "ArrowUp" \in k \/ "KeyW" \in k \/ "Space" \in k
      [] dir = "backward" -> "ArrowDown" \in k \/ "KeyS" \in k

\* The directional booleans read from a set of held key codes.
Held(k, dir) ==
    CASE dir = "left" -> "ArrowLeft" \in k \/ "KeyA" \in k
      [] dir = "right" -> "ArrowRight" \in k \/ "KeyD" \in k
      [] dir = "forward" -> "ArrowUp" \in k \/ "KeyW" \in k
      [] dir = "backward" -> "ArrowDown" \in k \/ "KeyS" \in k

InputRight(k) ==
    (IF Held(k, "right") THEN 1 ELSE 0) - (IF Held(k, "left") THEN 1 ELSE 0)

InputForward(k) ==
    (IF Held(k, "forward") THEN 1 ELSE 0) - (IF Held(k, "backward") THEN 1 ELSE 0)

\* axes.current.forward and axes.current.right
AxisForward(c) == c.look
AxisRight(c) == Vec(-c.look.z, c.look.x)

\* moveX, moveZ
Move(c, k) ==
    Vec(InputRight(k) * AxisRight(c).x + InputForward(k) * AxisForward(c).x,
        InputRight(k) * AxisRight(c).z + InputForward(k) * AxisForward(c).z)

\* Acceleration toward the input or friction, per axis.
Accelerate(v, m) ==
    Vec(IF m.x # 0 THEN v.x + m.x * AccelStep ELSE Scale(v.x, FrictionFactor),
        IF m.z # 0 THEN v.z + m.z * AccelStep ELSE Scale(v.z, FrictionFactor))

\* Uniform cap of the speed.
CapSpeed(v) ==
    LET sq == v.x * v.x + v.z * v.z
    IN  IF sq > MaxSpeed * MaxSpeed
        THEN LET speed == Isqrt(sq)
             IN  Vec(TruncDiv(v.x * MaxSpeed, speed), TruncDiv(v.z * MaxSpeed, speed))
        ELSE v

\* Variant of the resolution that rejects the whole move when the
\* destination collides.
ResolveCollision_FullVector(p, v, c) ==
    IF c.hasWalls /\ Len(c.walls) > 0 /\ collidesWithWalls(p.x + v.x, p.z + v.z, c.walls)
    THEN [pos |-> p, vel |-> Vec(0, 0)]
    ELSE [pos |-> Vec(p.x + v.x, p.z + v.z), vel |-> v]

\* Candidate position and per-axis collision resolution.
ResolveCollision(p, v, c) ==
    LET newX == p.x + v.x
        newZ == p.z + v.z
    IN  IF c.hasWalls /\ Len(c.walls) > 0
        THEN LET okX == ~collidesWithWalls(newX, p.z, c.walls)
                 x1 == IF okX THEN newX ELSE p.x
                 okZ == ~collidesWithWalls(x1, newZ, c.walls)
             IN  [pos |-> Vec(x1, IF okZ THEN newZ ELSE p.z),
                  vel |-> Vec(IF okX THEN v.x ELSE 0, IF okZ THEN v.z ELSE 0)]
        ELSE [pos |-> Vec(newX, newZ), vel |-> v]

SnapPos(p) == Vec(snap(p.x, SNAP_UNIT), snap(p.z, SNAP_UNIT))

\* Variant of the clamp that leaves the position as it is.
ClampToBounds_Off(p, c) == p

ClampToBounds(p, c) ==
    IF c.hasBounds
    THEN Vec(Max(c.bounds.minX, Min(c.bounds.maxX, p.x)),
             Max(c.bounds.minZ, Min(c.bounds.maxZ, p.z)))
    ELSE p

(***************************************************************************)
(* Grid mode: the commit of a discrete input (cooldown, rising edge,       *)
(* destination test).  Returns the new target position, target facing and  *)
(* cooldown, the branch of the if-chain taken, and whether the target      *)
(* was changed.                                                            *)
(***************************************************************************)
GridResult(p, f, cd, branch, accepted) ==
    [pos |-> p, facing |-> f, cooldown |-> cd, branch |-> branch, accepted |-> accepted]

GridFree(c, d) == ~c.hasWalls \/ ~collidesWithWalls(d.x, d.z, c.walls)

\* Variant of the commit that fires on a held key instead of its rising edge.
GridCommit_LevelTriggered(tp, tf, cd, prev, k, c) ==
    LET cd1 == Max(0, cd - Dt)
        fwd == Vec(tp.x + RoundSin(tf) * c.cell, tp.z + RoundCos(tf) * c.cell)
        back == Vec(tp.x - RoundSin(tf) * c.cell, tp.z - RoundCos(tf) * c.cell)
    IN  IF cd1 > 0 THEN GridResult(tp, tf, cd1, "none", FALSE)
        ELSE IF Held(k, "left")
             THEN GridResult(tp, tf - QuarterTurn, GRID_INPUT_COOLDOWN, "left", TRUE)
        ELSE IF Held(k, "right")
             THEN GridResult(tp, tf + QuarterTurn, GRID_INPUT_COOLDOWN, "right", TRUE)
        ELSE IF Held(k, "forward")
             THEN GridResult(IF GridFree(c, fwd) THEN fwd ELSE tp, tf,
                             GRID_INPUT_COOLDOWN, "forward", GridFree(c, fwd))
        ELSE IF Held(k, "backward")
             THEN GridResult(IF GridFree(c, back) THEN back ELSE tp, tf,
                             GRID_INPUT_COOLDOWN, "backward", GridFree(c, back))
        ELSE GridResult(tp, tf, cd1, "none", FALSE)

\* Variant of the commit whose right turn is a half turn.
GridCommit_WideRight(tp, tf, cd, prev, k, c) ==
    LET cd1 == Max(0, cd - Dt)
        edge(dir) == Held(k, dir) /\ ~Held(prev, dir)
        fwd == Vec(tp.x + RoundSin(tf) * c.cell, tp.z + RoundCos(tf) * c.cell)
        back == Vec(tp.x - RoundSin(tf) * c.cell, tp.z - RoundCos(tf) * c.cell)
    IN  IF cd1 > 0 THEN GridResult(tp, tf, cd1, "none", FALSE)
        ELSE IF edge("left")
             THEN GridResult(tp, tf - QuarterTurn, GRID_INPUT_COOLDOWN, "left", TRUE)
        ELSE IF edge("right")
             THEN GridResult(tp, tf + HalfTurn, GRID_INPUT_COOLDOWN, "right", TRUE)
        ELSE IF edge("forward")
             THEN GridResult(IF GridFree(c, fwd) THEN fwd ELSE tp, tf,
                             GRID_INPUT_COOLDOWN, "forward", GridFree(c, fwd))
        ELSE IF edge("backward")
             THEN GridResult(IF GridFree(c, back) THEN back ELSE tp, tf,
                             GRID_INPUT_COOLDOWN, "backward", GridFree(c, back))
        ELSE GridResult(tp, tf, cd1, "none", FALSE)

\* Variant of the commit whose back move is half a cell long.
GridCommit_ShortBack(tp, tf, cd, prev, k, c) ==
    LET cd1 == Max(0, cd - Dt)
        edge(dir) == Held(k, dir) /\ ~Held(prev, dir)
        fwd == Vec(tp.x + RoundSin(tf) * c.cell, tp.z + RoundCos(tf) * c.cell)
        back == Vec(tp.x - RoundSin(tf) * (c.cell \div 2),
                    tp.z - RoundCos(tf) * (c.cell \div 2))
    IN  IF cd1 > 0 THEN GridResult(tp, tf, cd1, "none", FALSE)
        ELSE IF edge("left")
             THEN GridResult(tp, tf - QuarterTurn, GRID_INPUT_COOLDOWN, "left", TRUE)
        ELSE IF edge("right")
             THEN GridResult(tp, tf + QuarterTurn, GRID_INPUT_COOLDOWN, "right", TRUE)
        ELSE IF edge("forward")
             THEN GridResult(IF GridFree(c, fwd) THEN fwd ELSE tp, tf,
                             GRID_INPUT_COOLDOWN, "forward", GridFree(c, fwd))
        ELSE IF edge("backward")
             THEN GridResult(IF GridFree(c, back) THEN back ELSE tp, tf,
                             GRID_INPUT_COOLDOWN, "backward", GridFree(c, back))
        ELSE GridResult(tp, tf, cd1, "none", FALSE)

GridCommit(tp, tf, cd, prev, k, c) ==
    LET cd1 == Max(0, cd - Dt)
        edge(dir) == Held(k, dir) /\ ~Held(prev, dir)
        fwd == Vec(tp.x + RoundSin(tf) * c.cell, tp.z + RoundCos(tf) * c.cell)
        back == Vec(tp.x - RoundSin(tf) * c.cell, tp.z - RoundCos(tf) * c.cell)
    IN  IF cd1 > 0 THEN GridResult(tp, tf, cd1, "none", FALSE)
        ELSE IF edge("left")
             THEN GridResult(tp, tf - QuarterTurn, GRID_INPUT_COOLDOWN, "left", TRUE)
        ELSE IF edge("right")
             THEN GridResult(tp, tf + QuarterTurn, GRID_INPUT_COOLDOWN, "right", TRUE)
        ELSE IF edge("forward")
             THEN GridResult(IF GridFree(c, fwd) THEN fwd ELSE tp, tf,
                             GRID_INPUT_COOLDOWN, "forward", GridFree(c, fwd))
        ELSE IF edge("backward")
             THEN GridResult(IF GridFree(c, back) THEN back ELSE tp, tf,
                             GRID_INPUT_COOLDOWN, "backward", GridFree(c, back))
        ELSE GridResult(tp, tf, cd1, "none", FALSE)

\* Variant of the facing lerp that overshoots the target.
LerpFacing_Overshoot(cur, target) ==
    cur + Scale(shortestAngleDelta(cur, target), 3 * GridFacingLerp)

\* Exponential interpolation of the smoothed facing along the shortest arc.
LerpFacing(cur, target) ==
    cur + Scale(shortestAngleDelta(cur, target), GridFacingLerp)

\* Steps since the last change of the target are counted up to this cap.
SinceCommitCap == (GRID_INPUT_COOLDOWN \div Dt) + 2

TallyOne == Dt * FPS           \* the amount 1 of addMovement, in 1/2400

NoTally == UNCHANGED <<leftMovement, rightMovement, call, nOps>>

\* Variant of the early return that reports the position all the same.
SkipStep_Reports ==
    /\ probe' = [probe EXCEPT !.stepped = FALSE, !.callbacks = @ + 1,
                              !.reported = IF cfg.cell # 0 THEN gridCurrentPos ELSE pos]
    /\ NoTally
    /\ UNCHANGED <<pos, vel, lastLookDir, gridCurrentPos, gridTargetPos,
                   gridCurrentFacing, gridTargetFacing, gridCooldown, prevKeys,
                   camera>>

\* The frame returns early: shouldUpdate(delta) was false.
SkipStep ==
    /\ probe' = [probe EXCEPT !.stepped = FALSE]
    /\ NoTally
    /\ UNCHANGED <<pos, vel, lastLookDir, gridCurrentPos, gridTargetPos,
                   gridCurrentFacing, gridTargetFacing, gridCooldown, prevKeys,
                   camera>>

\* One simulation step in grid mode.
GridStep(k) ==
    LET g == GridCommit(gridTargetPos, gridTargetFacing, gridCooldown, prevKeys, k, cfg)
        lerped == Vec(gridCurrentPos.x + Scale(g.pos.x - gridCurrentPos.x, GridPosLerp),
                      gridCurrentPos.z + Scale(g.pos.z - gridCurrentPos.z, GridPosLerp))
        facing == LerpFacing(gridCurrentFacing, g.facing)
        cur == ClampToBounds(lerped, cfg)
        changed == g.pos # gridTargetPos \/ g.facing # gridTargetFacing
    IN  /\ gridTargetPos' = g.pos
        /\ gridTargetFacing' = g.facing
        /\ gridCooldown' = g.cooldown
        /\ prevKeys' = k
        /\ gridCurrentPos' = cur
        /\ gridCurrentFacing' = facing
        /\ IF chapter = "CH2" /\ g.branch \in {"left", "right"}
           THEN addMovementSet(g.branch, TallyOne)
           ELSE NoTally
        /\ camera' = [x |-> cur.x, y |-> EyeHeight, z |-> cur.z, aim |-> [yaw |-> facing]]
        /\ probe' = [stepped |-> TRUE, keys |-> k, from |-> gridTargetPos,
                     tried |-> probe.tried, resolved |-> probe.resolved,
                     branch |-> g.branch, accepted |-> g.accepted, reported |-> cur,
                     callbacks |-> probe.callbacks + 1,
                     sinceCommit |-> IF changed THEN 0
                                     ELSE Min(probe.sinceCommit + 1, SinceCommitCap),
                     commits |-> probe.commits + (IF changed THEN 1 ELSE 0),
                     idle |-> IF changed THEN 0 ELSE probe.idle + 1,
                     rights |-> probe.rights + (IF g.branch = "right" THEN 1 ELSE 0),
                     moveBranch |-> IF changed THEN (IF g.pos # gridTargetPos
                                                     THEN g.branch ELSE "none")
                                    ELSE probe.moveBranch,
                     moveFrom |-> IF g.pos # gridTargetPos THEN gridTargetPos
                                  ELSE probe.moveFrom,
                     turnBranch |-> IF changed THEN (IF g.facing # gridTargetFacing
                                                     THEN g.branch ELSE "none")
                                    ELSE probe.turnBranch,
                     turnFrom |-> IF g.facing # gridTargetFacing THEN gridTargetFacing
                                  ELSE probe.turnFrom]
        /\ UNCHANGED <<pos, vel, lastLookDir>>

\* One simulation step in continuous mode.
ContinuousStep(k) ==
    LET v1 == CapSpeed(Accelerate(vel, Move(cfg, k)))
        r == ResolveCollision(pos, v1, cfg)
        p2 == ClampToBounds(SnapPos(r.pos), cfg)
        moving == Abs(r.vel.x) > LookThreshold \/ Abs(r.vel.z) > LookThreshold
        look == IF cfg.mode = "1st" /\ moving THEN r.vel ELSE lastLookDir
    IN  /\ pos' = p2
        /\ vel' = r.vel
        /\ lastLookDir' = look
        /\ IF chapter = "CH2" /\ InputRight(k) # 0
           THEN addMovementSet(IF InputRight(k) < 0 THEN "left" ELSE "right",
                               Abs(InputRight(k)) * Dt)
           ELSE NoTally
        /\ camera' =
             IF cfg.mode = "1st"
             THEN [x |-> p2.x, y |-> EyeHeight, z |-> p2.z,
                   aim |-> IF moving
                           THEN [x |-> p2.x + r.vel.x * 3 * FinePerMilli, y |-> EyeHeight,
                                 z |-> p2.z + r.vel.z * 3 * FinePerMilli]
                           ELSE [x |-> p2.x + look.x * 5 * FinePerMilli, y |-> EyeHeight,
                                 z |-> p2.z + look.z * 5 * FinePerMilli]]
             ELSE [x |-> p2.x, y |-> cfg.startY + (5 * Unit) \div 2,
                   z |-> p2.z + (7 * Unit) \div 2,
                   aim |-> [x |-> p2.x, y |-> cfg.startY + Unit \div 2, z |-> p2.z]]
        /\ probe' = [stepped |-> TRUE, keys |-> k, from |-> pos, tried |-> v1,
                     resolved |-> r.pos,
                     branch |-> "none", accepted |-> FALSE, reported |-> p2,
                     callbacks |-> probe.callbacks + 1,
                     sinceCommit |-> probe.sinceCommit, commits |-> probe.commits,
                     idle |-> probe.idle, rights |-> probe.rights,
                     moveBranch |-> probe.moveBranch, moveFrom |-> probe.moveFrom,
                     turnBranch |-> probe.turnBranch, turnFrom |-> probe.turnFrom]
        /\ UNCHANGED <<gridCurrentPos, gridTargetPos, gridCurrentFacing,
                       gridTargetFacing, gridCooldown, prevKeys>>

\* The useFrame callback: one render frame with elapsed time delta while the
\* keys k are held.  The tallies apart, the store is left to onPosition.
FrameStep(delta, k) ==
    /\ cfg.kind # "none"
    /\ LET r == shouldUpdate(accumulated, delta)
       IN  /\ accumulated' = r.acc
           /\ sched' = Observe(delta, r.fire)
           /\ IF ~r.fire THEN SkipStep
              ELSE IF cfg.cell # 0 THEN GridStep(k)
              ELSE ContinuousStep(k)

\* A frame of a controller whose onPosition callback changes no store field.
Frame(delta, k) ==
    /\ FrameStep(delta, k)
    /\ UNCHANGED <<chapter, visitedEvents, isTransitioning, cartItems, activeEffect,
                   notification, effectTimeoutId, timers, nextTimerId, addLog,
                   lastGo, lastEffect, cfg, sceneVars, queryVars>>

(***************************************************************************)
(* The controller as the scenes mount it: props, key sets and frame times  *)
(* explored.                                                               *)
(***************************************************************************)
MaxContFrames == 4    \* render frames in one run, continuous mode
MaxGridFrames == 9    \* render frames in one run, grid mode

Rect(x0, x1, z0, z1) == [minX |-> x0, maxX |-> x1, minZ |-> z0, maxZ |-> z1]

\* Continuous mode between a wall ahead (toward -Z) and a wall to the right.
CfgContWalls ==
    [kind |-> "cont", mode |-> "1st", hasBounds |-> FALSE, bounds |-> NoBounds,
     hasWalls |-> TRUE,
     walls |-> << Rect(-2 * Unit, 2 * Unit, -Unit, -(7 * Unit) \div 20),
                  Rect((2 * Unit) \div 5, Unit, -2 * Unit, 2 * Unit) >>,
     start |-> Vec(0, 0), startY |-> Unit \div 2, look |-> Vec(0, -1), cell |-> 0,
     gridInputCooldown |-> 0]

\* Continuous mode inside bounds -1.5..1.5, third person, no walls.
CfgContBounds ==
    [kind |-> "cont", mode |-> "3rd", hasBounds |-> TRUE,
     bounds |-> Rect(-(3 * Unit) \div 2, (3 * Unit) \div 2,
                     -(3 * Unit) \div 2, (3 * Unit) \div 2),
     hasWalls |-> FALSE, walls |-> <<>>,
     start |-> Vec((7 * Unit) \div 5, 0), startY |-> Unit \div 2,
     look |-> Vec(0, -1), cell |-> 0, gridInputCooldown |-> 0]

\* Grid mode, cell size 2, looking toward +Z at an obstacle that fills the
\* cell ahead.
CfgGridBlock ==
    [kind |-> "grid", mode |-> "1st", hasBounds |-> TRUE,
     bounds |-> Rect(Unit \div 2, (7 * Unit) \div 2, Unit \div 2, (7 * Unit) \div 2),
     hasWalls |-> TRUE,
     walls |-> << Rect(0, 2 * Unit, 2 * Unit, 4 * Unit) >>,
     start |-> Vec(Unit, Unit), startY |-> Unit \div 2, look |-> Vec(0, 1),
     cell |-> 2 * Unit, gridInputCooldown |-> 0]

Configs == {CfgContWalls, CfgContBounds, CfgGridBlock}

KeyChoices == { {}, {"KeyW"}, {"KeyD"}, {"ArrowLeft"}, {"KeyS"}, {"KeyW", "KeyD"} }

CtrlDeltas == {Interval - 2, Interval}

\* The refs of the controller mounted with the props c.
InitController(c) ==
    /\ cfg = c
    /\ pos = c.start
    /\ vel = Vec(0, 0)
    /\ lastLookDir = Vec(c.look.x * 1000, c.look.z * 1000)
    /\ gridCurrentPos = c.start
    /\ gridTargetPos = c.start
    /\ gridCurrentFacing = Yaw(c.look)
    /\ gridTargetFacing = Yaw(c.look)
    /\ gridCooldown = 0
    /\ prevKeys = {}
    /\ camera = NoCamera
    /\ probe = NoProbe

InitCtrl == \E c \in Configs : InitController(c)

\* Chapters whose scenes mount the controller in the configurations above.
MountChapters == {"CH2", "CH3"}

\* The store as a mounted scene finds it: only the chapter has moved on.
InitMounted ==
    /\ chapter \in MountChapters
    /\ InitStoreFields
    /\ InitSched
    /\ InitCtrl
    /\ InitSceneNone
    /\ InitQueryNone

FrameLimit == IF cfg.cell # 0 THEN MaxGridFrames ELSE MaxContFrames

NextCtrl ==
    \E d \in CtrlDeltas : \E k \in KeyChoices :
        sched.frames < FrameLimit /\ Frame(d, k)

SpecCtrl == InitMounted /\ [][NextCtrl]_vars

(***************************************************************************)
(* Grid mode under a player who only turns: a turn key is pressed for one  *)
(* step at a time, only after the cooldown has run out, MaxTurns times at  *)
(* most, and then nothing more is pressed.                                 *)
(***************************************************************************)
MaxTurns == 4         \* turn presses in one run
MaxTurnFrames == 48   \* render frames in one run

TurnKeys == { {}, {"KeyD"}, {"ArrowLeft"} }

InitTurn == InitMounted /\ cfg = CfgGridBlock

TurnFrame(k) ==
    /\ sched.frames < MaxTurnFrames
    /\ k # {} => (gridCooldown = 0 /\ probe.commits < MaxTurns)
    /\ Frame(Interval, k)

NextTurn == \E k \in TurnKeys : TurnFrame(k)

SpecTurn == InitTurn /\ [][NextTurn]_vars

(***************************************************************************)
(* The controller under a keyboard that also holds codes it does not read: *)
(* useKeyboard adds every e.code of a keydown to the set.                  *)
(***************************************************************************)
MaxKeyFrames == 3     \* render frames in one run

AnyKeys ==
    { {}, {"KeyW"}, {"KeyD"}, {"ArrowLeft"}, {"Space"}, {"keyw"},
      {"KeyQ", "KeyW"}, {"ShiftLeft", "KeyD"}, {"Space", "KeyS"} }

NextKeys ==
    \E k \in AnyKeys : sched.frames < MaxKeyFrames /\ Frame(Interval, k)

SpecKeys == InitMounted /\ [][NextKeys]_vars

(***************************************************************************)
(* The movement tallies under everything that runs while CH2 is played:    *)
(* simulation steps of the controller, addMovement calls of the other      *)
(* controller (FPSController), goToChapter calls and their timers.         *)
(***************************************************************************)
MaxTallyFrames == 2   \* render frames in one run
MaxTallyOps == 2      \* store operations called so far when another is called

TallyKeys == { {}, {"KeyD"}, {"ArrowLeft"} }

\* Amounts the controllers pass: a time step's worth (zero when the render
\* frame took no time) or 1.
TallyAmounts == {0, TallyOne}

\* One configuration of each mode.
InitTally == InitMounted /\ chapter = "CH2" /\ cfg \in {CfgContBounds, CfgGridBlock}

NextTally ==
    \/ sched.frames < MaxTallyFrames /\ \E k \in TallyKeys : Frame(Interval, k)
    \/ nOps < MaxTallyOps
          /\ \E d \in Directions : \E a \in TallyAmounts : addMovement(d, a)
    \/ nOps < MaxTallyOps /\ \E c \in GoTargets : goToChapter(c)
    \/ \E t \in timers : FireChapter(t)
    \/ \E t \in timers : FireFadeEnd(t)
    \/ Tick

SpecTally == InitTally /\ [][NextTally]_vars

(***************************************************************************)
(* The maze of Ch3: generateMaze lays thin walls on the edges of the cells *)
(* and Ch3Inner mounts the controller in grid mode at the centre of the    *)
(* start cell.  Which inner walls stand is random; the fragment below has  *)
(* the south walls of cells (0, 0) and (0, 1), so both open to the east.   *)
(***************************************************************************)
MAZE_SIZE == 10
CELL_SIZE == 7 * Unit
WALL_THICKNESS == (3 * Unit) \div 20

WallPos(x, z, scaleX, scaleZ) == [x |-> x, z |-> z, scaleX |-> scaleX, scaleZ |-> scaleZ]

\* Outer boundary walls: top, bottom, left, right.
BoundaryWalls(width, height, CELL) ==
    << WallPos((width * CELL) \div 2, 0, width * CELL + WALL_THICKNESS, WALL_THICKNESS),
       WallPos((width * CELL) \div 2, height * CELL, width * CELL + WALL_THICKNESS,
               WALL_THICKNESS),
       WallPos(0, (height * CELL) \div 2, WALL_THICKNESS, height * CELL),
       WallPos(width * CELL, (height * CELL) \div 2, WALL_THICKNESS, height * CELL) >>

\* The south wall of cell (x, y).
SouthWall(x, y, CELL) ==
    WallPos(x * CELL + CELL \div 2, y * CELL + CELL \div 2 + CELL \div 2, CELL,
            WALL_THICKNESS)

cellToWorld(gx, gy, cellSize) ==
    Vec(gx * cellSize + cellSize \div 2, gy * cellSize + cellSize \div 2)

wallPositions ==
    BoundaryWalls(MAZE_SIZE, MAZE_SIZE, CELL_SIZE)
        \o << SouthWall(0, 0, CELL_SIZE), SouthWall(0, 1, CELL_SIZE) >>

wallAABBs ==
    [i \in 1..Len(wallPositions) |->
        LET w == wallPositions[i]
        IN  Rect(w.x - w.scaleX \div 2, w.x + w.scaleX \div 2,
                 w.z - w.scaleZ \div 2, w.z + w.scaleZ \div 2)]

mazeWorldSize == MAZE_SIZE * CELL_SIZE

\* The props of the PlayerController in Ch3Inner; gridInputCooldown is 0.4 s.
CfgMaze ==
    [kind |-> "grid", mode |-> "1st", hasBounds |-> TRUE,
     bounds |-> Rect(Unit \div 2, mazeWorldSize - Unit \div 2,
                     Unit \div 2, mazeWorldSize - Unit \div 2),
     hasWalls |-> TRUE, walls |-> wallAABBs,
     start |-> cellToWorld(0, 0, CELL_SIZE), startY |-> Unit \div 2,
     look |-> Vec(0, 1), cell |-> CELL_SIZE,
     gridInputCooldown |-> (2 * Dt * FPS) \div 5]

(***************************************************************************)
(* Grid mode under a player who walks: a key is pressed for one step at a  *)
(* time, only when the cooldown lets the step take it, until MaxMoves      *)
(* commits have changed the target.                                        *)
(***************************************************************************)
MaxMoves == 3         \* commits in one run
MaxWalkFrames == 16   \* render frames in one run

GridConfigs == {CfgGridBlock, CfgMaze}

WalkKeys == { {}, {"KeyW"}, {"KeyS"}, {"KeyD"}, {"ArrowLeft"} }

\* The maze is mounted by the scene of CH3.
InitGrid ==
    /\ chapter \in MountChapters
    /\ InitStoreFields
    /\ InitSched
    /\ \E c \in GridConfigs : InitController(c)
    /\ cfg = CfgMaze => chapter = "CH3"
    /\ InitSceneNone
    /\ InitQueryNone

WalkFrame(k) ==
    /\ sched.frames < MaxWalkFrames
    /\ k # {} => (gridCooldown <= Dt /\ probe.commits < MaxMoves)
    /\ Frame(Interval, k)

NextGrid == \E k \in WalkKeys : WalkFrame(k)

SpecGrid == InitGrid /\ [][NextGrid]_vars

(***************************************************************************)
(* Continuous mode among the walls of the maze: the controller mounted     *)
(* with the wall rectangles of Ch3Inner and without gridCellSize, under a  *)
(* player who holds forward for HoldFrames frames, toward the south wall   *)
(* of the start cell, and then moves along the Z axis as they like.        *)
(***************************************************************************)
HoldFrames == 17      \* render frames with forward held at the start of a run
FreeFrames == 9       \* render frames with any of SlideKeys that follow

\* The props of Ch3Inner without gridCellSize and bounds: continuous mode.
CfgContMaze ==
    [kind |-> "cont", mode |-> "1st", hasBounds |-> FALSE, bounds |-> NoBounds,
     hasWalls |-> TRUE, walls |-> wallAABBs,
     start |-> cellToWorld(0, 0, CELL_SIZE), startY |-> Unit \div 2,
     look |-> Vec(0, 1), cell |-> 0, gridInputCooldown |-> 0]

SlideKeys == { {}, {"KeyW"}, {"KeyS"} }

InitSlide ==
    /\ chapter = "CH3"
    /\ InitStoreFields
    /\ InitSched
    /\ InitController(CfgContMaze)
    /\ InitSceneNone
    /\ InitQueryNone

SlideFrame(k) ==
    /\ sched.frames < HoldFrames + FreeFrames
    /\ sched.frames < HoldFrames => k = {"KeyW"}
    /\ Frame(Interval, k)

NextSlide == \E k \in SlideKeys : SlideFrame(k)

SpecSlide == InitSlide /\ [][NextSlide]_vars

(***************************************************************************)
(* collidesWithWalls on its own: the scenes and the controller call it     *)
(* with a point and a list of wall rectangles.                             *)
(***************************************************************************)
MaxWalls == 3        \* walls in one list passed to collidesWithWalls

\* Two rectangles sharing an edge and one apart from both.
QueryWalls ==
    { Rect(0, Unit, 0, Unit),
      Rect(Unit, 2 * Unit, 0, Unit),
      Rect(-3 * Unit, -2 * Unit, 2 * Unit, 3 * Unit) }

WallLists == UNION { [1..n -> QueryWalls] : n \in 0..MaxWalls }

\* Points whose box touches, just overlaps, lies inside or lies apart.
QueryXs ==
    { -PLAYER_HALF, 1 - PLAYER_HALF, Unit \div 2, 2 * Unit + PLAYER_HALF - 1,
      2 * Unit + PLAYER_HALF, 5 * Unit }

QueryZs ==
    { -PLAYER_HALF, 1 - PLAYER_HALF, Unit \div 2, Unit + PLAYER_HALF - 1,
      Unit + PLAYER_HALF }

\* One call collidesWithWalls(px, pz, walls).
CollisionQuery(px, pz, walls) ==
    /\ query' = [asked |-> TRUE, px |-> px, pz |-> pz, walls |-> walls,
                 hit |-> collidesWithWalls(px, pz, walls)]
    /\ UNCHANGED <<storeVars, obsVars, simVars, sceneVars>>

\* The calls are independent of each other: one call per run.
NextWalls ==
    /\ ~query.asked
    /\ \E px \in QueryXs : \E pz \in QueryZs : \E walls \in WallLists :
           CollisionQuery(px, pz, walls)

SpecWalls == Init /\ [][NextWalls]_vars

(***************************************************************************)
(* The chapter scenes: the polling checks of the street scene (Ch2Inner)   *)
(* and of Ch3Inner, the dev-mode skip buttons, and the timers the scenes   *)
(* create.  A polling tick is described by the trigger zone it finds the   *)
(* player in.  The player may linger in a zone from one tick to the next;  *)
(* arrivals in another zone and clicks are sampled every TravelTicks       *)
(* ticks.  A scene timer carries the mount generation of the scene that    *)
(* created it.                                                             *)
(***************************************************************************)
MaxPolls == 2        \* polling ticks that find the player in a zone
MaxSkips == 2        \* clicks on dev skip buttons
TravelTicks == 5     \* ticks between the instants at which the player arrives or clicks

NotifDelay == 20     \* setTimeout(() => setNotification(null), 2000)
MirrorBlur == 20     \* setActiveEffect('blur', 2000)

MEDICINES ==
    << [name |-> "med1", effect |-> "desaturate", duration |-> 30],
       [name |-> "med2", effect |-> "blur", duration |-> 30] >>

MedZone(i) == IF i = 1 THEN "med1" ELSE "med2"
MedEvent(i) == IF i = 1 THEN "ch3_med_0" ELSE "ch3_med_1"

\* The scene local state right after a mount.
MountedScene == [NoScene EXCEPT !.gen = 1, !.zone = "start", !.fresh = TRUE]

InitScene == scene = MountedScene /\ script = NoScript

\* The chapter value changed: the old scene unmounts, the new one mounts.
Remount(sc) ==
    [sc EXCEPT !.gen = @ + 1, !.collected = {}, !.zone = "start"]

\* The polling tick can find the player in zone z.
ZoneReady(z) ==
    /\ scene.fresh
    /\ z # scene.zone => scene.clock = 0

\* Bookkeeping of a polling tick that found the player in zone z.
Polled(sc, z) == [sc EXCEPT !.zone = z, !.fresh = FALSE, !.polls = @ + 1]

\* The effect timers after a setActiveEffect with a duration.
EffectReplaced(ts, id, effect, duration) ==
    setTimeout(IF effectTimeoutId # 0 THEN clearTimeout(ts, effectTimeoutId) ELSE ts,
               id, "effectClear", effect, duration)

EffectCalled(effect, duration) ==
    [called |-> TRUE, effect |-> effect, dur |-> duration, since |-> 0,
     superseded |-> \E t \in timers : t.kind = "effectClear",
     afterCancel |-> AfterCancel]

\* Ch3Inner check, medicine pickup detection for medicine i.
Ch3Medicine(i) ==
    /\ chapter = "CH3"
    /\ ZoneReady(MedZone(i))
    /\ UNCHANGED <<simVars, queryVars, script>>
    /\ IF i \notin scene.collected
       THEN LET med == MEDICINES[i]
            IN  /\ scene' = [Polled(scene, MedZone(i)) EXCEPT
                                !.collected = @ \cup {i},
                                !.pickups[i] = @ + 1,
                                !.notifTimer = nextTimerId + 1]
                /\ cartItems' = IF Len(cartItems) < CartCap
                                THEN Append(cartItems, med.name) ELSE cartItems
                /\ addLog' = Append(addLog, med.name)
                /\ activeEffect' = med.effect
                /\ effectTimeoutId' = nextTimerId
                /\ lastEffect' = EffectCalled(med.effect, med.duration)
                /\ notification' = med.name
                /\ visitedEvents' = visitedEvents \cup {MedEvent(i)}
                /\ timers' = setTimeout(
                                EffectReplaced(timers, nextTimerId, med.effect, med.duration),
                                nextTimerId + 1, "notifClear", ToString(scene.gen),
                                NotifDelay)
                /\ nextTimerId' = nextTimerId + 2
                /\ nOps' = nOps + 4
                /\ call' = [op |-> "triggerEvent", arg |-> MedEvent(i),
                            val |-> IF MedEvent(i) \in visitedEvents
                                    THEN "false" ELSE "true"]
                /\ UNCHANGED <<chapter, isTransitioning, leftMovement, rightMovement,
                               lastGo>>
       ELSE /\ scene' = Polled(scene, MedZone(i))
            /\ UNCHANGED <<storeVars, obsVars>>

\* Ch3Inner check, fitting room / mirror detection.
Ch3Mirror ==
    /\ chapter = "CH3"
    /\ ZoneReady("mirror")
    /\ UNCHANGED <<simVars, queryVars, script>>
    /\ IF "ch3_mirror" \notin visitedEvents
       THEN /\ scene' = [Polled(scene, "mirror") EXCEPT !.notifTimer = nextTimerId + 1]
            /\ visitedEvents' = visitedEvents \cup {"ch3_mirror"}
            /\ notification' = "mirror"
            /\ activeEffect' = "blur"
            /\ effectTimeoutId' = nextTimerId
            /\ lastEffect' = EffectCalled("blur", MirrorBlur)
            /\ timers' = setTimeout(
                            EffectReplaced(timers, nextTimerId, "blur", MirrorBlur),
                            nextTimerId + 1, "notifClear", ToString(scene.gen),
                            NotifDelay)
            /\ nextTimerId' = nextTimerId + 2
            /\ nOps' = nOps + 3
            /\ call' = [op |-> "setActiveEffect", arg |-> "blur", val |-> "void"]
            /\ UNCHANGED <<chapter, isTransitioning, leftMovement, rightMovement,
                           cartItems, addLog, lastGo>>
       ELSE /\ scene' = Polled(scene, "mirror")
            /\ Called("triggerEvent", "ch3_mirror", "false")
            /\ UNCHANGED <<storeVars, addLog, lastGo, lastEffect>>

\* The exit check of a scene: goToChapter(next) behind triggerEvent(id).
ExitCheck(id, next) ==
    /\ ZoneReady("exit")
    /\ UNCHANGED <<simVars, queryVars, script>>
    /\ IF id \notin visitedEvents
       THEN /\ scene' = [Polled(scene, "exit") EXCEPT
                            !.exitSeen[id] = Min(@ + 1, 2), !.exitCalls[id] = @ + 1]
            /\ visitedEvents' = visitedEvents \cup {id}
            /\ nOps' = nOps + 2
            /\ call' = [op |-> "goToChapter", arg |-> next, val |-> "void"]
            /\ isTransitioning' = TRUE
            /\ timers' = setTimeout(
                            setTimeout(timers, nextTimerId, "chapter", next, FadeInDelay),
                            nextTimerId + 1, "fadeEnd", "-", FadeOutDelay)
            /\ nextTimerId' = nextTimerId + 2
            /\ lastGo' = [called |-> TRUE, from |-> chapter, to |-> next, since |-> 0,
                          solo |-> ~TransitionPending]
            /\ UNCHANGED <<chapter, leftMovement, rightMovement, cartItems,
                           activeEffect, notification, effectTimeoutId, lastEffect,
                           addLog>>
       ELSE /\ scene' = [Polled(scene, "exit") EXCEPT !.exitSeen[id] = Min(@ + 1, 2)]
            /\ Called("triggerEvent", id, "false")
            /\ UNCHANGED <<storeVars, addLog, lastGo, lastEffect>>

\* Variant of the street scene's exit check without the triggerEvent gate.
Ch2Exit_Ungated ==
    /\ chapter = "CH2"
    /\ ZoneReady("exit")
    /\ UNCHANGED <<simVars, queryVars, script>>
    /\ scene' = [Polled(scene, "exit") EXCEPT
                    !.exitSeen["ch2_exit"] = Min(@ + 1, 2),
                    !.exitCalls["ch2_exit"] = @ + 1]
    /\ goToChapterSet("CH3")

\* Ch2Inner check, exit.
Ch2Exit == chapter = "CH2" /\ ExitCheck("ch2_exit", "CH3")

\* Ch3Inner check, exit detection.
Ch3Exit == chapter = "CH3" /\ ExitCheck("ch3_exit", "CH4")

\* The chapters the dev skip buttons of a scene lead to.
SkipTargets(c) ==
    IF c = "CH3" THEN {"CH4", "CH2"}
    ELSE IF c = "CH2" THEN {"CH3", "CH1"}
    ELSE {}

\* A click on a dev skip button of the mounted scene.
DevSkip(c) ==
    /\ c \in SkipTargets(chapter)
    /\ scene.clock = 0
    /\ goToChapterSet(c)
    /\ scene' = [scene EXCEPT !.skips = @ + 1]
    /\ UNCHANGED <<simVars, queryVars, script>>

\* The chapter timer fires and the scenes are switched.
SceneFireChapter(t) ==
    /\ FireChapterSet(t)
    /\ scene' = IF t.arg # chapter THEN Remount(scene) ELSE scene
    /\ UNCHANGED <<simVars, queryVars, script>>

\* The timer of a pickup or of the mirror clears the notification.
FireNotifClear(t) ==
    /\ Due(t) /\ t.kind = "notifClear"
    /\ notification' = "null"
    /\ timers' = timers \ {t}
    /\ Called("setNotification", "null", "void")
    /\ scene' = [scene EXCEPT !.notifTimer = 0]
    /\ UNCHANGED <<chapter, visitedEvents, isTransitioning, leftMovement,
                   rightMovement, cartItems, activeEffect, effectTimeoutId,
                   nextTimerId, addLog, lastGo, lastEffect, simVars,
                   queryVars, script>>

SceneTick ==
    /\ TickSet
    /\ scene' = [scene EXCEPT !.clock = (@ + 1) % TravelTicks, !.fresh = TRUE]
    /\ UNCHANGED <<simVars, queryVars, script>>

SceneChapters == {"CH2", "CH3"}

InitMountedScene ==
    /\ chapter \in SceneChapters
    /\ InitStoreFields
    /\ InitSched
    /\ InitCtrlNone
    /\ InitScene
    /\ InitQueryNone

NextScene ==
    \/ scene.polls < MaxPolls /\ \E i \in MedIdx : Ch3Medicine(i)
    \/ scene.polls < MaxPolls /\ Ch3Mirror
    \/ scene.polls < MaxPolls /\ Ch3Exit
    \/ scene.polls < MaxPolls /\ Ch2Exit
    \/ scene.skips < MaxSkips /\ \E c \in Chapters : DevSkip(c)
    \/ \E t \in timers : SceneFireChapter(t)
    \/ \E t \in timers : FireFadeEnd(t)
    \/ \E t \in timers : FireEffectClear(t)
    \/ \E t \in timers : FireNotifClear(t)
    \/ SceneTick

SpecScene == InitMountedScene /\ [][NextScene]_vars

(***************************************************************************)
(* The walking scene of CH1: Ch1Inner mounts the controller in continuous  *)
(* mode inside the bounds -1.5..1.5 and watches the reported position for  *)
(* the door.  The player keeps forward held, alone or with a side key.     *)
(***************************************************************************)
MaxDoorFrames == 14   \* render frames in one run

DoorGlitch == 3       \* setActiveEffect('glitch', 300)
DoorDelay == 4        \* setTimeout(() => goToChapter('CH2'), 400)
DoorLine == -(3 * Unit) \div 2

\* The props of the PlayerController in Ch1Inner.
CfgCh1 ==
    [kind |-> "cont", mode |-> "1st", hasBounds |-> TRUE,
     bounds |-> Rect(-(3 * Unit) \div 2, (3 * Unit) \div 2,
                     -(3 * Unit) \div 2, (3 * Unit) \div 2),
     hasWalls |-> FALSE, walls |-> <<>>,
     start |-> Vec(0, 0), startY |-> Unit \div 2, look |-> Vec(0, -1), cell |-> 0,
     gridInputCooldown |-> 0]

\* handlePosition(x, z): the door trigger.
handlePosition(x, z) ==
    IF z < DoorLine /\ "ch1_door" \notin visitedEvents
    THEN /\ visitedEvents' = visitedEvents \cup {"ch1_door"}
         /\ activeEffect' = "glitch"
         /\ effectTimeoutId' = nextTimerId
         /\ lastEffect' = EffectCalled("glitch", DoorGlitch)
         /\ timers' = setTimeout(
                         EffectReplaced(timers, nextTimerId, "glitch", DoorGlitch),
                         nextTimerId + 1, "door", "CH2", DoorDelay)
         /\ nextTimerId' = nextTimerId + 2
         /\ UNCHANGED <<chapter, isTransitioning, cartItems, notification, addLog,
                        lastGo>>
    ELSE UNCHANGED <<chapter, visitedEvents, isTransitioning, cartItems,
                     activeEffect, notification, effectTimeoutId, timers,
                     nextTimerId, addLog, lastGo, lastEffect>>

Ch1Keys == { {"KeyW"}, {"KeyW", "KeyD"} }

InitCh1 ==
    /\ chapter = "CH1"
    /\ InitStoreFields
    /\ InitSched
    /\ InitController(CfgCh1)
    /\ InitSceneNone
    /\ InitQueryNone

\* A render frame of Ch1Inner: the controller's frame, whose step reports the
\* position to handlePosition.
Ch1Frame(k) ==
    /\ sched.frames < MaxDoorFrames
    /\ FrameStep(Interval, k)
    /\ IF probe'.stepped THEN handlePosition(probe'.reported.x, probe'.reported.z)
       ELSE UNCHANGED <<chapter, visitedEvents, isTransitioning, cartItems,
                        activeEffect, notification, effectTimeoutId, timers,
                        nextTimerId, addLog, lastGo, lastEffect>>
    /\ UNCHANGED <<cfg, sceneVars, queryVars>>

NextCh1 == \E k \in Ch1Keys : Ch1Frame(k)

SpecCh1 == InitCh1 /\ [][NextCh1]_vars

(***************************************************************************)
(* The game driven by its scene scripts alone, from the start screen on:   *)
(* the click on the start screen, the timers of IntroScene, the cutscene   *)
(* of Ch1 with its door, the exits of the street scene and of Ch3, the     *)
(* phases of Ch4Screen.  Timers that only change what is drawn (the title  *)
(* of the intro, the lines of Ch4) are left out.  After the chapter value  *)
(* has changed, the effects of the new render run before anything else:    *)
(* the old scene's cleanup, then the new scene's mount.                    *)
(***************************************************************************)
MaxClicks == 2        \* clicks on the start screen

IntroDelay == 50        \* setTimeout(() => goToChapter('CH1'), 5000)
HallucinationDelay == 30  \* Ch1Inner t1, 3000
HallucinationGlitch == 20 \* setActiveEffect('glitch', 2000)
ReadyDelay == 55        \* Ch1Inner t2, 5500
Ch4Silence == 80        \* Ch4Screen, setPhase('text') after 8000
Ch4TextTime == 120      \* Ch4Screen, setPhase('ending') after 12000
Ch4EndingTime == 30     \* Ch4Screen, goToChapter('CH5') after 3000

\* The timers the cleanup of a scene clears.
CleanupKinds(c) ==
    IF c = "INTRO" THEN {"introT2"}
    ELSE IF c = "CH1" THEN {"ch1T1", "ch1T2"}
    ELSE IF c = "CH4" THEN {"ch4Text", "ch4Ending", "ch4Go"}
    ELSE {}

\* The timers the mount effects of a scene set.
MountTimers(c, id) ==
    IF c = "INTRO" THEN {[id |-> id, kind |-> "introT2", arg |-> "CH1", rem |-> IntroDelay]}
    ELSE IF c = "CH1"
    THEN {[id |-> id, kind |-> "ch1T1", arg |-> "-", rem |-> HallucinationDelay],
          [id |-> id + 1, kind |-> "ch1T2", arg |-> "-", rem |-> ReadyDelay]}
    ELSE IF c = "CH4"
    THEN {[id |-> id, kind |-> "ch4Text", arg |-> "-", rem |-> Ch4Silence]}
    ELSE {}

\* The scene of the chapter shown has run its mount effects.
StoryReady == script.mounted = chapter

\* renderScene switched scenes: cleanup of the old one, mount of the new one.
StoryMount ==
    /\ ~StoryReady
    /\ LET kept == {t \in timers : t.kind \notin CleanupKinds(script.mounted)}
           new == MountTimers(chapter, nextTimerId)
       IN  /\ timers' = kept \cup new
           /\ nextTimerId' = nextTimerId + Cardinality(new)
    /\ script' = [script EXCEPT !.mounted = chapter, !.phase = 0,
                                !.doorOpened = FALSE, !.ch4Phase = "black",
                                !.cutscenePhase = "null", !.rendered = TRUE]
    /\ scene' = Remount(scene)
    /\ UNCHANGED <<chapter, visitedEvents, isTransitioning, leftMovement,
                   rightMovement, cartItems, activeEffect, notification,
                   effectTimeoutId, obsVars, simVars, queryVars>>

\* StartScreen, onClick.
StartScreenClick ==
    /\ chapter = "START"
    /\ StoryReady
    /\ script.clicks < MaxClicks
    /\ goToChapterSet("INTRO")
    /\ script' = [script EXCEPT !.clicks = @ + 1]
    /\ UNCHANGED <<simVars, queryVars, scene>>

\* Variant of a script timer's callback that asks for the start screen.
ScriptGo_ToStart(t, c) ==
    /\ Due(t)
    /\ Called("goToChapter", "START", "void")
    /\ isTransitioning' = TRUE
    /\ timers' = setTimeout(
                    setTimeout(timers \ {t}, nextTimerId, "chapter", "START", FadeInDelay),
                    nextTimerId + 1, "fadeEnd", "-", FadeOutDelay)
    /\ nextTimerId' = nextTimerId + 2
    /\ lastGo' = [called |-> TRUE, from |-> chapter, to |-> "START", since |-> 0,
                  solo |-> ~TransitionPending]
    /\ UNCHANGED <<chapter, visitedEvents, leftMovement, rightMovement, cartItems,
                   activeEffect, notification, effectTimeoutId, lastEffect, addLog,
                   frameVars>>

\* The callback of the script timer t calls goToChapter(c).
ScriptGo(t, c) ==
    /\ Due(t)
    /\ Called("goToChapter", c, "void")
    /\ isTransitioning' = TRUE
    /\ timers' = setTimeout(
                    setTimeout(timers \ {t}, nextTimerId, "chapter", c, FadeInDelay),
                    nextTimerId + 1, "fadeEnd", "-", FadeOutDelay)
    /\ nextTimerId' = nextTimerId + 2
    /\ lastGo' = [called |-> TRUE, from |-> chapter, to |-> c, since |-> 0,
                  solo |-> ~TransitionPending]
    /\ UNCHANGED <<chapter, visitedEvents, leftMovement, rightMovement, cartItems,
                   activeEffect, notification, effectTimeoutId, lastEffect, addLog,
                   frameVars>>

\* IntroScene, t2.
IntroT2(t) == t.kind = "introT2" /\ ScriptGo(t, "CH1")

\* Ch1Inner, t1: the hallucination glitch.
Ch1T1(t) ==
    /\ Due(t) /\ t.kind = "ch1T1"
    /\ script' = [script EXCEPT !.phase = 1]
    /\ IF "ch1_hallucination" \notin visitedEvents
       THEN /\ visitedEvents' = visitedEvents \cup {"ch1_hallucination"}
            /\ activeEffect' = "glitch"
            /\ effectTimeoutId' = nextTimerId
            /\ lastEffect' = EffectCalled("glitch", HallucinationGlitch)
            /\ timers' = EffectReplaced(timers \ {t}, nextTimerId, "glitch",
                                        HallucinationGlitch)
            /\ nextTimerId' = nextTimerId + 1
            /\ nOps' = nOps + 2
            /\ call' = [op |-> "setActiveEffect", arg |-> "glitch", val |-> "void"]
       ELSE /\ timers' = timers \ {t}
            /\ Called("triggerEvent", "ch1_hallucination", "false")
            /\ UNCHANGED <<visitedEvents, activeEffect, effectTimeoutId, lastEffect,
                           nextTimerId>>
    /\ UNCHANGED <<chapter, isTransitioning, leftMovement, rightMovement, cartItems,
                   notification, addLog, lastGo, simVars, queryVars, scene>>

\* Ch1Inner, t2: the camera has settled on the door.
Ch1T2(t) ==
    /\ Due(t) /\ t.kind = "ch1T2"
    /\ script' = [script EXCEPT !.phase = 2]
    /\ timers' = timers \ {t}
    /\ UNCHANGED <<chapter, visitedEvents, isTransitioning, leftMovement,
                   rightMovement, cartItems, activeEffect, notification,
                   effectTimeoutId, nextTimerId, obsVars, simVars, queryVars, scene>>

\* Ch1Inner, onKey: the first key pressed in phase 2 opens the door.
onKey ==
    /\ chapter = "CH1"
    /\ StoryReady
    /\ ~(script.phase < 2 \/ script.doorOpened)
    /\ script' = [script EXCEPT !.doorOpened = TRUE]
    /\ activeEffect' = "glitch"
    /\ effectTimeoutId' = nextTimerId
    /\ lastEffect' = EffectCalled("glitch", DoorGlitch)
    /\ timers' = setTimeout(EffectReplaced(timers, nextTimerId, "glitch", DoorGlitch),
                            nextTimerId + 1, "door", "CH2", DoorDelay)
    /\ nextTimerId' = nextTimerId + 2
    /\ Called("setActiveEffect", "glitch", "void")
    /\ UNCHANGED <<chapter, visitedEvents, isTransitioning, leftMovement,
                   rightMovement, cartItems, notification, addLog, lastGo, simVars,
                   queryVars, scene>>

\* The door timer of Ch1Inner.
DoorTimer(t) == t.kind = "door" /\ ScriptGo(t, t.arg)

\* Ch4Screen, first effect: the silence is over.
Ch4Text(t) ==
    /\ Due(t) /\ t.kind = "ch4Text"
    /\ script' = [script EXCEPT !.ch4Phase = "text"]
    /\ timers' = setTimeout(timers \ {t}, nextTimerId, "ch4Ending", "-", Ch4TextTime)
    /\ nextTimerId' = nextTimerId + 1
    /\ UNCHANGED <<chapter, visitedEvents, isTransitioning, leftMovement,
                   rightMovement, cartItems, activeEffect, notification,
                   effectTimeoutId, obsVars, simVars, queryVars, scene>>

\* Ch4Screen, second effect: the ending is shown.
Ch4Ending(t) ==
    /\ Due(t) /\ t.kind = "ch4Ending"
    /\ script' = [script EXCEPT !.ch4Phase = "ending"]
    /\ timers' = setTimeout(timers \ {t}, nextTimerId, "ch4Go", "CH5", Ch4EndingTime)
    /\ nextTimerId' = nextTimerId + 1
    /\ UNCHANGED <<chapter, visitedEvents, isTransitioning, leftMovement,
                   rightMovement, cartItems, activeEffect, notification,
                   effectTimeoutId, obsVars, simVars, queryVars, scene>>

\* Ch4Screen, third effect, t2.
Ch4Go(t) == t.kind = "ch4Go" /\ ScriptGo(t, "CH5")

\* 100 ms pass over the scripted scenes.
StoryTick ==
    /\ TickSet
    /\ scene' = [scene EXCEPT !.clock = (@ + 1) % TravelTicks, !.fresh = TRUE]
    /\ script' = [script EXCEPT !.rendered = FALSE]
    /\ UNCHANGED <<simVars, queryVars>>

\* The steps that need no player.
StoryAuto ==
    \/ StoryMount
    \/ StoryReady /\ \E t \in timers : IntroT2(t)
    \/ StoryReady /\ \E t \in timers : Ch1T1(t)
    \/ StoryReady /\ \E t \in timers : Ch1T2(t)
    \/ StoryReady /\ \E t \in timers : DoorTimer(t)
    \/ StoryReady /\ \E t \in timers : Ch4Text(t)
    \/ StoryReady /\ \E t \in timers : Ch4Ending(t)
    \/ StoryReady /\ \E t \in timers : Ch4Go(t)
    \/ StoryReady /\ \E t \in timers : FireChapter(t)
    \/ StoryReady /\ \E t \in timers : FireFadeEnd(t)
    \/ StoryReady /\ \E t \in timers : FireEffectClear(t)
    \/ StoryReady /\ StoryTick

\* The steps of the player.
StoryInput ==
    \/ StartScreenClick
    \/ onKey
    \/ StoryReady /\ scene.polls < MaxPolls /\ Ch2Exit
    \/ StoryReady /\ scene.polls < MaxPolls /\ Ch3Exit

InitStory ==
    /\ chapter = "START"
    /\ InitStoreFields
    /\ InitSched
    /\ InitCtrlNone
    /\ scene = MountedScene
    /\ script = [NoScript EXCEPT !.mounted = "START", !.rendered = TRUE]
    /\ InitQueryNone

NextStory == StoryAuto \/ StoryInput

SpecStory == InitStory /\ [][NextStory]_vars /\ WF_vars(StoryAuto)

(***************************************************************************)
(* The elevator cutscene of Ch3: Ch3Scene keeps cutscenePhase and starts   *)
(* the sequence when Ch3Inner finds the player in the elevator cell or     *)
(* when the dev button is clicked.  The maze stays mounted under the       *)
(* overlay, so the player keeps walking while the cutscene runs.           *)
(***************************************************************************)
ELEVATOR_DURATION == 200
SPACE_DURATION == 300
RETURN_FADE == 8

\* startElevatorCutscene: the timers it sets, the first with id.
startElevatorCutscene(ts, id) ==
    ts \cup {[id |-> id, kind |-> "cutscene", arg |-> "space", rem |-> ELEVATOR_DURATION],
             [id |-> id + 1, kind |-> "cutscene", arg |-> "returning",
              rem |-> ELEVATOR_DURATION + SPACE_DURATION],
             [id |-> id + 2, kind |-> "cutscene", arg |-> "null",
              rem |-> ELEVATOR_DURATION + SPACE_DURATION + RETURN_FADE]}

\* Ch3Inner check, space elevator detection.
Ch3Elevator ==
    /\ chapter = "CH3"
    /\ ZoneReady("elevator")
    /\ scene' = Polled(scene, "elevator")
    /\ IF "ch3_elevator" \notin visitedEvents
       THEN /\ visitedEvents' = visitedEvents \cup {"ch3_elevator"}
            /\ Called("triggerEvent", "ch3_elevator", "true")
            /\ script' = [script EXCEPT !.cutscenePhase = "elevator"]
            /\ timers' = startElevatorCutscene(timers, nextTimerId)
            /\ nextTimerId' = nextTimerId + 3
       ELSE /\ Called("triggerEvent", "ch3_elevator", "false")
            /\ UNCHANGED <<visitedEvents, script, timers, nextTimerId>>
    /\ UNCHANGED <<chapter, isTransitioning, leftMovement, rightMovement, cartItems,
                   activeEffect, notification, effectTimeoutId, addLog, lastGo,
                   lastEffect, simVars, queryVars>>

\* The dev button "Elevator Cutscene".
DevElevator ==
    /\ chapter = "CH3"
    /\ scene.clock = 0
    /\ script.cutscenePhase = "null"
    /\ scene' = [scene EXCEPT !.skips = @ + 1]
    /\ script' = [script EXCEPT !.cutscenePhase = "elevator"]
    /\ timers' = startElevatorCutscene(timers, nextTimerId)
    /\ nextTimerId' = nextTimerId + 3
    /\ UNCHANGED <<chapter, visitedEvents, isTransitioning, leftMovement,
                   rightMovement, cartItems, activeEffect, notification,
                   effectTimeoutId, obsVars, simVars, queryVars>>

\* A timer of startElevatorCutscene sets the phase.
CutsceneTimer(t) ==
    /\ Due(t) /\ t.kind = "cutscene"
    /\ script' = [script EXCEPT !.cutscenePhase = t.arg]
    /\ timers' = timers \ {t}
    /\ UNCHANGED <<chapter, visitedEvents, isTransitioning, leftMovement,
                   rightMovement, cartItems, activeEffect, notification,
                   effectTimeoutId, nextTimerId, obsVars, simVars, queryVars, scene>>

InitElevator ==
    /\ chapter = "CH3"
    /\ InitStoreFields
    /\ InitSched
    /\ InitCtrlNone
    /\ scene = MountedScene
    /\ script = [NoScript EXCEPT !.mounted = "CH3"]
    /\ InitQueryNone

NextElevator ==
    \/ scene.polls < MaxPolls /\ Ch3Elevator
    \/ scene.skips < MaxSkips /\ DevElevator
    \/ \E t \in timers : CutsceneTimer(t)
    \/ SceneTick

SpecElevator == InitElevator /\ [][NextElevator]_vars

(***************************************************************************)
(* The whole game: the scene scripts, the dev skip buttons of the street   *)
(* scene and of Ch3, and the chapter buttons of the HUD, which is drawn    *)
(* over every scene.  Clicks on these buttons are sampled at the instants  *)
(* at which a scene has just mounted.                                      *)
(***************************************************************************)
MaxShortcuts == 1     \* clicks on dev skip buttons and on chapter buttons of the HUD

\* Variant of the HUD's list with a button for every value of the type.
CHAPTERS_WithEnd == Chapters

\* const CHAPTERS
CHAPTERS == {"START", "INTRO", "CH1", "CH2", "CH3", "CH4", "CH5"}

\* ChapterHUD, onClick of the button of chapter ch.
HudButton(ch) ==
    /\ ch \in CHAPTERS
    /\ StoryReady
    /\ script.rendered
    /\ scene.skips + script.hud < MaxShortcuts
    /\ goToChapterSet(ch)
    /\ script' = [script EXCEPT !.hud = @ + 1]
    /\ UNCHANGED <<simVars, queryVars, scene>>

NextGame ==
    \/ StoryAuto
    \/ StoryInput
    \/ StoryReady /\ script.rendered /\ scene.skips + script.hud < MaxShortcuts
          /\ \E c \in Chapters : DevSkip(c)
    \/ \E ch \in Chapters : HudButton(ch)

SpecGame == InitStory /\ [][NextGame]_vars

(***************************************************************************)
(*                      Properties of the store                            *)
(***************************************************************************)
StoreCall(op) == nOps' = nOps + 1 /\ call'.op = op

\* C1: a triggerEvent(e) on an id not yet visited returns true and adds e
\* to visitedEvents; a triggerEvent(e) on a visited id returns false and
\* leaves visitedEvents unchanged; no other operation and no timer changes
\* visitedEvents, so only the first triggerEvent(e) of a process returns true.
C1_TriggerOnce ==
    [][ IF StoreCall("triggerEvent")
        THEN IF call'.arg \in visitedEvents
             THEN call'.val = "false" /\ visitedEvents' = visitedEvents
             ELSE call'.val = "true" /\ visitedEvents' = visitedEvents \cup {call'.arg}
        ELSE visitedEvents' = visitedEvents ]_vars

\* A second triggerEvent(e) has returned false after a chapter transition
\* happened in between.
C1_Witness ==
    /\ call = [op |-> "triggerEvent", arg |-> "e1", val |-> "false"]
    /\ visitedEvents = {"e1"}
    /\ chapter # "START"
    /\ nOps = 3

\* C2: every change of the chapter value happens while isTransitioning is
\* true (the chapter never changes while the fade overlay is clear).
C2_ChapterChangesOnlyWhileTransitioning ==
    [][ chapter' # chapter => isTransitioning /\ isTransitioning' ]_vars

\* C3: after a goToChapter(B) issued in chapter A with no other transition
\* pending, and until the next goToChapter call, the chapter is A before the
\* 400 ms timer has fired and B afterwards, and isTransitioning is true
\* before the 800 ms timer has fired and false afterwards.
C3_SingleTransitionFraming ==
    (lastGo.called /\ lastGo.solo) =>
        LET swapPending == \E t \in timers : t.kind = "chapter"
            fadePending == \E t \in timers : t.kind = "fadeEnd"
        IN  /\ lastGo.since < FadeInDelay => swapPending
            /\ lastGo.since > FadeInDelay => ~swapPending
            /\ chapter = IF swapPending THEN lastGo.from ELSE lastGo.to
            /\ lastGo.since < FadeOutDelay => fadePending
            /\ lastGo.since > FadeOutDelay => ~fadePending
            /\ isTransitioning = fadePending

\* A single transition from START has run to its end.
C3_Witness ==
    /\ lastGo.called /\ lastGo.solo
    /\ lastGo.from = "START" /\ lastGo.to = "CH2"
    /\ lastGo.since = SinceCapGo
    /\ chapter = "CH2" /\ ~isTransitioning

\* C4: when a setActiveEffect(B, dB) with a duration replaces an effect whose
\* auto-clear timer was still pending, the active effect is B from the call
\* until dB has elapsed and null afterwards, and the only auto-clear timer
\* ever pending is the one of the second call, due dB after that call.
C4_EffectTimerSupersession ==
    (lastEffect.called /\ lastEffect.superseded
        /\ lastEffect.effect # "null" /\ lastEffect.dur > 0) =>
        LET clears == {t \in timers : t.kind = "effectClear"}
        IN  /\ Cardinality(clears) <= 1
            /\ \A t \in clears : /\ t.rem = lastEffect.dur - lastEffect.since
                                 /\ t.arg = lastEffect.effect
                                 /\ t.id = effectTimeoutId
            /\ lastEffect.since < lastEffect.dur => clears # {}
            /\ lastEffect.since > lastEffect.dur => clears = {}
            /\ activeEffect = IF clears # {} THEN lastEffect.effect ELSE "null"

\* Effect B with the shorter duration replaced effect A while A's timer was
\* pending, and B has been cleared by its own timer.
C4_Witness ==
    /\ lastEffect.called /\ lastEffect.superseded
    /\ lastEffect.effect = "B" /\ lastEffect.dur = 1
    /\ lastEffect.since = 1
    /\ activeEffect = "null"
    /\ \A t \in timers : t.kind # "effectClear"

\* C5: cartItems is exactly the first min(n, 5) labels passed to addToCart,
\* in call order, whatever else was called in between, and an addToCart on
\* a full cart leaves the whole store state unchanged.
C5_CartIsCappedPrefix ==
    /\ [](cartItems = SubSeq(addLog, 1, Min(Len(addLog), CartCap)))
    /\ [][ (StoreCall("addToCart") /\ Len(cartItems) = CartCap)
              => storeVars' = storeVars ]_vars

\* A sixth addToCart was called on a full cart, with another operation in
\* between the adds.
C5_Witness ==
    /\ Len(addLog) = 6
    /\ Len(cartItems) = CartCap
    /\ call.op = "addToCart"
    /\ nOps > Len(addLog)
    /\ cartItems[1] # cartItems[2]

(***************************************************************************)
(*                    Properties of the scheduler                          *)
(***************************************************************************)
\* C6: after every shouldUpdate call the accumulator is non-negative and
\* smaller than one step interval, and the signals returned so far never
\* exceed what the clamped frame times pay for (no catch-up burst after a
\* long frame).
C6_AccumulatorBelowInterval ==
    /\ accumulated >= 0
    /\ accumulated < Interval
    /\ sched.fired * Interval + accumulated <= sched.clamped

\* A 5 s frame came first and was followed by short frames: one signal.
C6_Witness ==
    /\ sched.frames = 4
    /\ sched.maxDelta = HitchDelta
    /\ sched.total = HitchDelta
    /\ sched.fired = 1
    /\ sched.last = 0

C25_VisitedEventsOnlyGrow == [][visitedEvents \subseteq visitedEvents']_vars

\* An event visited before a chapter transition is still visited after it.
C25_Witness ==
    /\ visitedEvents # {}
    /\ lastGo.called
    /\ chapter = lastGo.to
    /\ chapter # lastGo.from
    /\ timers = {}
    /\ call.op = "goToChapter"

\* C26: leftMovement and rightMovement never decrease over any sequence of
\* controller simulation steps, store operations and chapter transitions, and
\* addMovement on one side leaves the other side's tally unchanged.
C26_TalliesNeverDecrease ==
    [][/\ leftMovement' >= leftMovement
       /\ rightMovement' >= rightMovement
       /\ (StoreCall("addMovement") /\ call'.arg = "left") =>
              rightMovement' = rightMovement
       /\ (StoreCall("addMovement") /\ call'.arg = "right") =>
              leftMovement' = leftMovement]_vars

\* Both tallies have grown, the chapter has changed since, and a step of the
\* controller has run.
C26_Witness ==
    /\ leftMovement > 0
    /\ rightMovement > 0
    /\ chapter = "CH1"
    /\ probe.stepped
    /\ timers = {}

\* C28: when goToChapter(X) is followed by goToChapter(Y) before X's
\* transition has completed, neither call is dropped (each call adds its two
\* timers and cancels none): after all timers have fired the chapter is Y
\* (the last call wins) and isTransitioning is false, and isTransitioning
\* never stays true forever after any finite sequence of goToChapter calls.
C28_OverlappingTransitionsLastWins ==
    /\ []((lastGo.called /\ ~TransitionPending) =>
              (chapter = lastGo.to /\ ~isTransitioning))
    /\ [][StoreCall("goToChapter") =>
              /\ timers \subseteq timers'
              /\ Cardinality(timers') = Cardinality(timers) + 2
              /\ isTransitioning']_vars
    /\ (isTransitioning ~> ~isTransitioning)

\* goToChapter(CH2) was called after the swap to CH1 and before the end of
\* its fade, and every timer has fired.
C28_Witness ==
    /\ lastGo.called
    /\ ~lastGo.solo
    /\ lastGo.from = "CH1"
    /\ lastGo.to = "CH2"
    /\ ~TransitionPending
    /\ chapter = "CH2"
    /\ ~isTransitioning

(***************************************************************************)
(*                    Properties of the controller                         *)
(***************************************************************************)
\* A render frame whose simulation step ran.
SimStep == sched'.frames = sched.frames + 1 /\ probe'.stepped

\* C8: in a continuous-mode step with collision walls the X attempt and the
\* Z attempt are accepted or rejected separately.  When the X candidate is
\* free and the Z candidate (taken at the X the step has just resolved)
\* collides, X advances to its candidate, Z keeps its previous value, the Z
\* velocity becomes zero and the X velocity is retained; symmetrically, when
\* the X candidate collides and the Z candidate is free, Z advances, X keeps
\* its value, the X velocity becomes zero and the Z velocity is retained.
C8_PerAxisCollision ==
    [][(SimStep /\ cfg.kind = "cont" /\ cfg.hasWalls /\ Len(cfg.walls) > 0) =>
        LET v == probe'.tried
            newX == pos.x + v.x
            newZ == pos.z + v.z
            hitX == collidesWithWalls(newX, pos.z, cfg.walls)
        IN  /\ (~hitX /\ collidesWithWalls(newX, newZ, cfg.walls)) =>
                  /\ probe'.resolved = Vec(newX, pos.z)
                  /\ pos'.x = ClampToBounds(SnapPos(Vec(newX, pos.z)), cfg).x
                  /\ pos'.z = pos.z
                  /\ vel' = Vec(v.x, 0)
            /\ (hitX /\ ~collidesWithWalls(pos.x, newZ, cfg.walls)) =>
                  /\ probe'.resolved = Vec(pos.x, newZ)
                  /\ pos'.z = ClampToBounds(SnapPos(Vec(pos.x, newZ)), cfg).z
                  /\ pos'.x = pos.x
                  /\ vel' = Vec(0, v.z)]_vars

\* Diagonal input forward-right against the wall ahead: the step moved in X
\* and was stopped in Z.
C8_Witness ==
    /\ cfg = CfgContWalls
    /\ probe.stepped
    /\ probe.keys = {"KeyW", "KeyD"}
    /\ probe.tried.x > 0
    /\ probe.tried.z < 0
    /\ probe.resolved = Vec(probe.from.x + probe.tried.x, probe.from.z)
    /\ pos.x > probe.from.x
    /\ pos.z = probe.from.z
    /\ vel = Vec(probe.tried.x, 0)

\* The symmetric case: stopped in X by the wall to the right, moved in Z.
C8_WitnessBlockedX ==
    /\ cfg = CfgContWalls
    /\ probe.stepped
    /\ probe.tried.x > 0
    /\ probe.tried.z < 0
    /\ probe.resolved = Vec(probe.from.x, probe.from.z + probe.tried.z)
    /\ pos.x = probe.from.x
    /\ pos.z < probe.from.z
    /\ vel = Vec(0, probe.tried.z)

GridDirections == {"left", "right", "forward", "backward"}

\* C9: in grid mode the target position or target facing changes in a step
\* only if that step is a simulation step in which a directional key is held
\* that was not held in the snapshot of the previous step, the cooldown has
\* run down to zero, and (measured in simulation time) at least the cooldown
\* has passed since the previous change of the target.
C9_CommitOnlyOnRisingEdgeAfterCooldown ==
    [][(gridTargetPos' # gridTargetPos \/ gridTargetFacing' # gridTargetFacing) =>
        /\ SimStep
        /\ \E dir \in GridDirections : Held(prevKeys', dir) /\ ~Held(prevKeys, dir)
        /\ Max(0, gridCooldown - Dt) = 0
        /\ probe.commits > 0 => (probe.sinceCommit + 1) * Dt >= GRID_INPUT_COOLDOWN]_vars

\* A second commit has just happened.
C9_Witness ==
    /\ cfg = CfgGridBlock
    /\ probe.stepped
    /\ probe.commits = 2
    /\ probe.sinceCommit = 0
    /\ probe.branch # "none"
    /\ probe.accepted

\* A key held since the first commit is still held after the cooldown has
\* run out, and nothing more was committed.
C9_WitnessHeld ==
    /\ cfg = CfgGridBlock
    /\ probe.stepped
    /\ probe.commits = 1
    /\ probe.sinceCommit = SinceCommitCap
    /\ gridCooldown = 0
    /\ probe.keys = {"ArrowLeft"}
    /\ prevKeys = {"ArrowLeft"}
    /\ gridTargetFacing = Yaw(cfg.look) - QuarterTurn

\* C10: a grid-mode forward or back attempt whose destination overlaps a
\* collision rectangle leaves target position, target facing and the input
\* cooldown timer as they were before the attempt (the cooldown after the
\* step's own countdown).
C10_BlockedAttemptLeavesStateUnchanged ==
    [][(SimStep /\ cfg.kind = "grid"
          /\ probe'.branch \in {"forward", "backward"} /\ ~probe'.accepted) =>
        /\ gridTargetPos' = gridTargetPos
        /\ gridTargetFacing' = gridTargetFacing
        /\ gridCooldown' = Max(0, gridCooldown - Dt)]_vars

SettleSteps == 20       \* simulation steps allowed for the smoothed facing to arrive
FacingTolerance == 2    \* 0.02 degree, the resolution at which the lerp comes to rest

\* C11: after four turn-right commits spaced beyond the cooldown the target
\* facing denotes its original direction again (one full turn further, with
\* the same forward step vector); with no further input the smoothed facing
\* is at that direction within SettleSteps simulation steps; and every step
\* turns the smoothed facing along the shorter arc toward the target without
\* passing it.
C11_FourRightTurnsReturn ==
    /\ [](cfg.cell # 0 /\ probe.commits = 4 /\ probe.rights = 4 =>
            /\ gridTargetFacing = Yaw(cfg.look) + FullTurn
            /\ shortestAngleDelta(Yaw(cfg.look), gridTargetFacing) = 0
            /\ RoundSin(gridTargetFacing) = RoundSin(Yaw(cfg.look))
            /\ RoundCos(gridTargetFacing) = RoundCos(Yaw(cfg.look))
            /\ probe.idle >= SettleSteps =>
                  Abs(gridTargetFacing - gridCurrentFacing) <= FacingTolerance)
    /\ [][(SimStep /\ cfg.cell # 0) =>
            LET d == shortestAngleDelta(gridCurrentFacing, gridTargetFacing')
                turned == gridCurrentFacing' - gridCurrentFacing
                rest == shortestAngleDelta(gridCurrentFacing', gridTargetFacing')
            IN  /\ Abs(d) < HalfTurn
                /\ turned * d >= 0
                /\ Abs(turned) <= Abs(d)
                /\ rest = d - turned]_vars

\* Four right turns done and the smoothed facing has arrived.
C11_Witness ==
    /\ cfg = CfgGridBlock
    /\ probe.commits = 4
    /\ probe.rights = 4
    /\ probe.idle = SettleSteps
    /\ gridTargetFacing = Yaw(cfg.look) + FullTurn
    /\ Abs(gridTargetFacing - gridCurrentFacing) <= FacingTolerance
    /\ gridCurrentFacing > Yaw(cfg.look) + 3 * QuarterTurn

\* C12: for every non-null effect and every duration value passed, 0
\* included, activeEffect becomes null again after setActiveEffect(effect,
\* duration) unless a later setActiveEffect call intervenes.  Only the
\* auto-clear timer can do that, so while the effect of such a call is still
\* set, its auto-clear timer is pending.
C12_PassedDurationClears ==
    (lastEffect.called /\ lastEffect.effect # "null" /\ lastEffect.dur # Undefined
        /\ activeEffect # "null") =>
        \E t \in timers : t.kind = "effectClear" /\ t.id = effectTimeoutId

EffectClears == {t \in timers : t.kind = "effectClear"}

\* C13: setActiveEffect(null) sets activeEffect to null at once and leaves no
\* auto-clear timer pending; and after any setActiveEffect call that
\* schedules no timer (null, or an effect without duration) no auto-clear
\* timer is pending and activeEffect stays what that call set, so no timer
\* scheduled earlier can change it.
C13_NullCancelsPendingClear ==
    /\ [][(StoreCall("setActiveEffect") /\ call'.arg = "null") =>
            (activeEffect' = "null" /\ EffectClears' = {})]_vars
    /\ []((lastEffect.called
            /\ ~(lastEffect.effect # "null" /\ Truthy(lastEffect.dur))) =>
            (EffectClears = {} /\ activeEffect = lastEffect.effect))

\* A timer was pending, setActiveEffect(null) cancelled it, effect B was then
\* set without duration and is still there after the longest duration.
C13_Witness ==
    /\ lastEffect.called /\ lastEffect.afterCancel
    /\ lastEffect.effect = "B" /\ lastEffect.dur = Undefined
    /\ lastEffect.since = SinceCapEffect
    /\ activeEffect = "B"
    /\ timers = {}

\* C14: at most one effect auto-clear timer is pending, and the pending one
\* belongs to the call that set the present activeEffect (so when it fires,
\* activeEffect is the effect of the call that scheduled it).
C14_SingleEffectTimer ==
    /\ [](/\ Cardinality(EffectClears) <= 1
          /\ \A t \in EffectClears :
                /\ t.id = effectTimeoutId
                /\ t.arg = activeEffect
                /\ t.arg = lastEffect.effect
                /\ t.rem = lastEffect.dur - lastEffect.since)
    /\ [][\A t \in EffectClears :
            (Due(t) /\ timers' = timers \ {t} /\ nOps' = nOps) =>
                (activeEffect = t.arg /\ activeEffect' = "null")]_vars

\* The auto-clear timer of effect A has just fired after a full duration.
C14_Witness ==
    /\ lastEffect.called
    /\ lastEffect.effect = "A" /\ lastEffect.dur = MaxDur
    /\ lastEffect.since = MaxDur
    /\ activeEffect = "null"
    /\ effectTimeoutId = 0
    /\ EffectClears = {}

\* C19: the position callback is invoked exactly once in every render frame
\* for which the scheduler returns true, with the position the step arrived
\* at, and never in a frame for which it returns false, in continuous mode
\* as well as in grid mode.
C19_CallbackOncePerStep ==
    /\ [](cfg.kind # "none" => probe.callbacks = sched.fired)
    /\ [][(cfg.kind # "none" /\ sched'.frames = sched.frames + 1) =>
            IF shouldUpdate(accumulated, sched'.last).fire
            THEN /\ probe'.callbacks = probe.callbacks + 1
                 /\ probe'.reported = IF cfg.cell # 0 THEN gridCurrentPos' ELSE pos'
            ELSE /\ probe'.callbacks = probe.callbacks
                 /\ probe'.reported = probe.reported]_vars

\* Grid mode: a frame without a step after two frames with one.
C19_Witness ==
    /\ cfg = CfgGridBlock
    /\ sched.frames = 3
    /\ sched.fired = 2
    /\ ~probe.stepped
    /\ probe.callbacks = 2
    /\ probe.reported = gridCurrentPos

\* Continuous mode: the same.
C19_WitnessContinuous ==
    /\ cfg = CfgContWalls
    /\ sched.frames = 3
    /\ sched.fired = 2
    /\ ~probe.stepped
    /\ probe.callbacks = 2
    /\ probe.reported = pos
    /\ pos # cfg.start

\* C20: collidesWithWalls(px, pz, walls) is true exactly when some wall w
\* satisfies px+h > w.minX, px-h < w.maxX, pz+h > w.minZ and pz-h < w.maxZ,
\* h being the player half-width: a box that only touches wall edges does not
\* collide, an empty list never collides, and the result is the same for
\* every order of the walls.
C20_CollidesIffSomeWallOverlaps ==
    query.asked =>
        LET h == PLAYER_HALF
            px == query.px
            pz == query.pz
            walls == query.walls
            n == Len(walls)
            Overlaps(w) ==
                /\ px + h > w.minX
                /\ px - h < w.maxX
                /\ pz + h > w.minZ
                /\ pz - h < w.maxZ
            Touches(w) ==
                \/ px + h = w.minX
                \/ px - h = w.maxX
                \/ pz + h = w.minZ
                \/ pz - h = w.maxZ
        IN  /\ query.hit = (\E i \in 1..n : Overlaps(walls[i]))
            /\ (\A i \in 1..n : Touches(walls[i])) => ~query.hit
            /\ n = 0 => ~query.hit
            /\ \A f \in Permutations(1..n) :
                   collidesWithWalls(px, pz, [i \in 1..n |-> walls[f[i]]]) = query.hit

\* The box touches the left edge of the only wall, inside its z range.
C20_Witness ==
    /\ query.asked
    /\ Len(query.walls) = 1
    /\ query.px + PLAYER_HALF = query.walls[1].minX
    /\ query.pz > query.walls[1].minZ
    /\ query.pz < query.walls[1].maxZ
    /\ ~query.hit

\* The first wall of the list is missed and a later one is hit.
C20_WitnessLaterWall ==
    /\ query.asked
    /\ Len(query.walls) = 3
    /\ ~collidesWithWalls(query.px, query.pz, <<query.walls[1]>>)
    /\ ~collidesWithWalls(query.px, query.pz, <<query.walls[2]>>)
    /\ query.hit

\* The world axis a facing (in 1/100 degree, a multiple of a quarter turn)
\* points along: 0 is +Z, 90 is +X, 180 is -Z, 270 is -X.
FacingAxis(f) ==
    LET q == ((f % 36000) + 36000) % 36000
    IN  CASE q = 0 -> Vec(0, 1)
          [] q = 9000 -> Vec(1, 0)
          [] q = 18000 -> Vec(0, -1)
          [] q = 27000 -> Vec(-1, 0)

\* A simulation step of grid mode that accepted a move of the given kind.
MoveCommit(kind) ==
    SimStep /\ cfg.cell # 0 /\ probe'.branch = kind /\ probe'.accepted

\* C21: an accepted grid-mode forward commit moves the target position by
\* exactly one cell size along exactly one world axis, in the direction of
\* the current target facing, and leaves the target facing unchanged; an
\* accepted back commit is its exact inverse, so a forward commit followed by
\* a back commit (and a back commit followed by a forward commit) restores
\* the target position.
C21_MoveCommitIsOneCell ==
    [][/\ MoveCommit("forward") =>
            /\ gridTargetPos' =
                 Vec(gridTargetPos.x + FacingAxis(gridTargetFacing).x * cfg.cell,
                     gridTargetPos.z + FacingAxis(gridTargetFacing).z * cfg.cell)
            /\ gridTargetFacing' = gridTargetFacing
            /\ (probe.moveBranch = "backward" => gridTargetPos' = probe.moveFrom)
       /\ MoveCommit("backward") =>
            /\ gridTargetPos' =
                 Vec(gridTargetPos.x - FacingAxis(gridTargetFacing).x * cfg.cell,
                     gridTargetPos.z - FacingAxis(gridTargetFacing).z * cfg.cell)
            /\ gridTargetFacing' = gridTargetFacing
            /\ (probe.moveBranch = "forward" => gridTargetPos' = probe.moveFrom)]_vars

\* In the maze a forward commit was followed by a back commit.
C21_Witness ==
    /\ cfg = CfgMaze
    /\ probe.stepped
    /\ probe.commits = 2
    /\ probe.branch = "backward"
    /\ probe.accepted
    /\ probe.moveFrom = Vec(cfg.start.x, cfg.start.z + cfg.cell)
    /\ gridTargetPos = cfg.start

\* After a turn to the right a forward commit along +X was followed by a back commit.
C21_WitnessTurned ==
    /\ cfg = CfgGridBlock
    /\ probe.commits = 3
    /\ probe.rights = 1
    /\ probe.branch = "backward"
    /\ probe.accepted
    /\ probe.moveFrom = Vec(cfg.start.x + cfg.cell, cfg.start.z)
    /\ gridTargetPos = cfg.start

\* A simulation step of grid mode that committed a turn of the given kind.
TurnCommit(kind) == SimStep /\ cfg.cell # 0 /\ probe'.branch = kind

\* C22: a grid-mode turn commit changes the target facing by exactly one
\* quarter turn (left: minus 90 degrees, right: plus 90 degrees) and leaves
\* the target position unchanged; a left turn followed by a right turn (and a
\* right turn followed by a left turn) restores the target facing.
C22_TurnCommitIsQuarterTurn ==
    [][/\ TurnCommit("left") =>
            /\ gridTargetFacing' = gridTargetFacing - 9000
            /\ gridTargetPos' = gridTargetPos
            /\ (probe.turnBranch = "right" => gridTargetFacing' = probe.turnFrom)
       /\ TurnCommit("right") =>
            /\ gridTargetFacing' = gridTargetFacing + 9000
            /\ gridTargetPos' = gridTargetPos
            /\ (probe.turnBranch = "left" => gridTargetFacing' = probe.turnFrom)]_vars

\* A left turn was followed by a right turn, after two turns to the left.
C22_Witness ==
    /\ cfg.cell # 0
    /\ probe.stepped
    /\ probe.commits = 4
    /\ probe.rights = 1
    /\ probe.branch = "right"
    /\ probe.turnFrom = Yaw(cfg.look) - 27000
    /\ gridTargetFacing = Yaw(cfg.look) - 18000
    /\ gridTargetPos = cfg.start

GlideTolerance == 2     \* 1/12000 unit, the resolution at which the lerp comes to rest

\* The distance between the smoothed and the target position (larger axis).
GlideDistance(cur, target) == Max(Abs(target.x - cur.x), Abs(target.z - cur.z))

\* C23: in grid mode smoothing runs in every simulation step, and while no
\* further commit occurs the distance between the smoothed position and the
\* committed target position never increases and the smoothed position does
\* not come to rest before that distance is below the threshold, whether or
\* not bounds are configured.
C23_GlideReachesTarget ==
    [][(SimStep /\ cfg.cell # 0 /\ gridTargetPos' = gridTargetPos) =>
        LET before == GlideDistance(gridCurrentPos, gridTargetPos)
            after == GlideDistance(gridCurrentPos', gridTargetPos')
        IN  /\ after <= before
            /\ gridCurrentPos' = gridCurrentPos => after <= GlideTolerance]_vars

\* C24: whenever bounds are configured, every position reported through the
\* position callback satisfies minX <= x <= maxX and minZ <= z <= maxZ, after
\* every simulation step, in continuous mode and in grid mode.
C24_ReportedPositionWithinBounds ==
    (cfg.hasBounds /\ probe.callbacks > 0) =>
        /\ cfg.bounds.minX <= probe.reported.x
        /\ probe.reported.x <= cfg.bounds.maxX
        /\ cfg.bounds.minZ <= probe.reported.z
        /\ probe.reported.z <= cfg.bounds.maxZ

\* Continuous mode: the step resolved a position beyond maxX and reported
\* maxX.
C24_Witness ==
    /\ cfg = CfgContBounds
    /\ probe.stepped
    /\ probe.resolved.x > cfg.bounds.maxX
    /\ probe.reported.x = cfg.bounds.maxX
    /\ pos = probe.reported

\* Grid mode: the target lies beyond minZ and minZ is reported.
C24_WitnessGrid ==
    /\ cfg = CfgGridBlock
    /\ probe.stepped
    /\ gridTargetPos.z < cfg.bounds.minZ
    /\ probe.reported.z = cfg.bounds.minZ
    /\ gridCurrentPos = probe.reported

\* The eight key codes the controller recognizes.
RecognizedCodes ==
    {"ArrowLeft", "ArrowRight", "ArrowUp", "ArrowDown", "KeyA", "KeyD", "KeyW", "KeyS"}

\* The amount a step adds to the tally of a side when it reads the keys k.
TallyOf(side, k) ==
    IF chapter # "CH2" THEN 0
    ELSE IF cfg.cell # 0
         THEN (IF GridCommit(gridTargetPos, gridTargetFacing, gridCooldown,
                             prevKeys \cap RecognizedCodes, k, cfg).branch = side
               THEN TallyOne ELSE 0)
    ELSE IF side = "left" THEN (IF InputRight(k) < 0 THEN Dt ELSE 0)
    ELSE (IF InputRight(k) > 0 THEN Dt ELSE 0)

\* C27: for any set K of held input codes, a simulation step (continuous or
\* grid) yields the same kinematic state, tally updates and reported position
\* as the same step with K (and the snapshot of the previous step's keys)
\* restricted to the eight recognized codes.
C27_UnknownCodesIgnored ==
    [][SimStep =>
        LET kr == probe'.keys \cap RecognizedCodes
            g == GridCommit(gridTargetPos, gridTargetFacing, gridCooldown,
                            prevKeys \cap RecognizedCodes, kr, cfg)
            glide == ClampToBounds(
                         Vec(gridCurrentPos.x + Scale(g.pos.x - gridCurrentPos.x, GridPosLerp),
                             gridCurrentPos.z + Scale(g.pos.z - gridCurrentPos.z, GridPosLerp)),
                         cfg)
            r == ResolveCollision(pos, CapSpeed(Accelerate(vel, Move(cfg, kr))), cfg)
        IN  /\ leftMovement' = leftMovement + TallyOf("left", kr)
            /\ rightMovement' = rightMovement + TallyOf("right", kr)
            /\ prevKeys' \cap RecognizedCodes =
                  (IF cfg.cell # 0 THEN kr ELSE prevKeys \cap RecognizedCodes)
            /\ IF cfg.cell # 0
               THEN /\ gridTargetPos' = g.pos
                    /\ gridTargetFacing' = g.facing
                    /\ gridCooldown' = g.cooldown
                    /\ gridCurrentPos' = glide
                    /\ gridCurrentFacing' = LerpFacing(gridCurrentFacing, g.facing)
                    /\ probe'.reported = glide
               ELSE /\ vel' = r.vel
                    /\ pos' = ClampToBounds(SnapPos(r.pos), cfg)
                    /\ probe'.reported = pos']_vars

\* Grid mode: back was committed in the second step next to an unread code.
C27_Witness ==
    /\ cfg = CfgGridBlock
    /\ probe.stepped
    /\ probe.keys = {"Space", "KeyS"}
    /\ probe.branch = "backward"
    /\ probe.accepted
    /\ sched.fired = 2
    /\ gridTargetPos # cfg.start

\* Continuous mode: a step that read KeyD next to an unread code.
C27_WitnessContinuous ==
    /\ cfg = CfgContWalls
    /\ probe.stepped
    /\ probe.keys = {"ShiftLeft", "KeyD"}
    /\ vel.x > 0
    /\ sched.fired = 2

\* C29: the grid input cooldown is the value the scene configures: in the
\* maze of Ch3, which configures 0.4 s, two discrete grid commits are never
\* less than 0.4 s of simulation time apart.
C29_ConfiguredCooldownSeparatesCommits ==
    [][(SimStep /\ cfg = CfgMaze /\ probe.commits > 0
            /\ (gridTargetPos' # gridTargetPos \/ gridTargetFacing' # gridTargetFacing)) =>
        (probe.idle + 1) * Dt >= cfg.gridInputCooldown]_vars

\* The straight path from a to b (one of its axes is constant) meets the
\* rectangle w.
PathMeets(a, b, w) ==
    /\ Min(a.x, b.x) <= w.maxX
    /\ Max(a.x, b.x) >= w.minX
    /\ Min(a.z, b.z) <= w.maxZ
    /\ Max(a.z, b.z) >= w.minZ

\* C30: in grid mode with collision walls, starting from a wall-free cell,
\* no accepted forward/back commit carries the player across a wall: the
\* straight path from the old to the new target position never intersects a
\* collision rectangle, and the smoothed position never overlaps a wall at
\* any simulation step.
C30_NoCommitAcrossWall ==
    /\ [][(SimStep /\ cfg.cell # 0 /\ cfg.hasWalls /\ gridTargetPos' # gridTargetPos) =>
            \A i \in 1..Len(cfg.walls) :
                ~PathMeets(gridTargetPos, gridTargetPos', cfg.walls[i])]_vars
    /\ []((cfg.cell # 0 /\ cfg.hasWalls) =>
            ~collidesWithWalls(gridCurrentPos.x, gridCurrentPos.z, cfg.walls))

\* C31: in continuous mode with collision walls, a simulation step that
\* starts with the player box clear of every wall ends with the box clear of
\* every wall, the position after the step being the resolved position
\* quantized to the 0.05 grid and clamped to the bounds.
C31_StepKeepsClearOfWalls ==
    [][(/\ SimStep
        /\ cfg.kind = "cont"
        /\ cfg.hasWalls
        /\ ~collidesWithWalls(pos.x, pos.z, cfg.walls)) =>
            /\ pos' = ClampToBounds(SnapPos(probe'.resolved), cfg)
            /\ ~collidesWithWalls(pos'.x, pos'.z, cfg.walls)]_vars

\* C32: in grid mode with bounds configured, the committed target position
\* is inside the bounds after any sequence of commits, so it is a position
\* the clamped smoothed position can take.
C32_TargetWithinBounds ==
    (cfg.cell # 0 /\ cfg.hasBounds) =>
        gridTargetPos = ClampToBounds(gridTargetPos, cfg)

(***************************************************************************)
(*                      Properties of the scenes                           *)
(***************************************************************************)
\* The timer t of a scene fires in this step.
NotifClearFires(t) ==
    t.kind = "notifClear" /\ Due(t) /\ timers' = timers \ {t}

\* C15: once a scene has unmounted, no timer created by that scene fires any
\* more: a scene timer that fires was created by the scene mounted now, so
\* no setNotification originates from an unmounted scene.
C15_NoTimerOfUnmountedSceneFires ==
    [][\A t \in timers : NotifClearFires(t) => t.arg = ToString(scene.gen)]_vars

\* C16: the clear timer scheduled for an earlier notification never clears a
\* notification that was set later: a clear timer that fires while a
\* notification is shown is the one scheduled together with it.
C16_NotificationKeepsFullTime ==
    [][\A t \in timers :
        (NotifClearFires(t) /\ notification # "null") => t.id = scene.notifTimer]_vars

\* C17: the side effects of a medicine pickup fire at most once for each
\* medicine, also when the Ch3 scene is left and entered again, and
\* cartItems never holds the same label twice.
C17_PickupOncePerLifetime ==
    /\ \A i \in MedIdx : scene.pickups[i] <= 1
    /\ \A i, j \in 1..Len(cartItems) : cartItems[i] = cartItems[j] => i = j

\* C18: however many polling ticks find the player in the exit zone of the
\* street scene or of Ch3, the check calls goToChapter for that exit at most
\* once.
C18_ExitCalledOnce ==
    \A x \in ExitIds : scene.exitCalls[x] <= 1

\* The street scene was left through its exit, entered again, and a polling
\* tick found the player in the exit zone once more.
C18_Witness ==
    /\ chapter = "CH2"
    /\ scene.gen >= 3
    /\ scene.zone = "exit"
    /\ scene.exitSeen["ch2_exit"] = 2
    /\ scene.exitCalls["ch2_exit"] = 1
    /\ call = [op |-> "triggerEvent", arg |-> "ch2_exit", val |-> "false"]

\* The player lingers in the exit zone of Ch3 while the fade runs.
C18_WitnessLinger ==
    /\ chapter = "CH3"
    /\ isTransitioning
    /\ scene.gen = 1
    /\ scene.exitSeen["ch3_exit"] = 2
    /\ scene.exitCalls["ch3_exit"] = 1

\* C33: whenever the street scene of CH2 is the current chapter and a polling
\* tick finds the player in its exit zone, a transition to CH3 is requested
\* and the chapter becomes CH3, also when CH2 has been entered for the second
\* time.  The chapter changes through a chapter timer only, so after such a
\* tick a chapter timer for CH3 is pending.
C33_Ch2ExitRequestsCh3 ==
    [][(/\ chapter = "CH2"
        /\ scene'.zone = "exit"
        /\ scene'.polls = scene.polls + 1) =>
            \E t \in timers' : t.kind = "chapter" /\ t.arg = "CH3"]_vars

\* C34: in the walking scene of CH1 a player who keeps forward held from the
\* start position eventually triggers the event ch1_door.  A step with
\* forward held that leaves position and velocity as they were is followed
\* by the same step for ever, so the event has been triggered by then.
C34_ForwardReachesDoor ==
    [][(/\ SimStep
        /\ cfg = CfgCh1
        /\ Held(probe'.keys, "forward")
        /\ probe.keys = probe'.keys
        /\ pos' = pos
        /\ vel' = vel) => "ch1_door" \in visitedEvents']_vars

\* The order of the chapters.
Successor(c) ==
    CASE c = "START" -> "INTRO"
      [] c = "INTRO" -> "CH1"
      [] c = "CH1" -> "CH2"
      [] c = "CH2" -> "CH3"
      [] c = "CH3" -> "CH4"
      [] c = "CH4" -> "CH5"
      [] OTHER -> "none"

\* C35: when the game is driven by its scene scripts alone, every change of
\* the chapter value goes from a chapter to its immediate successor in the
\* order START, INTRO, CH1, CH2, CH3, CH4, CH5; and from INTRO and from CH4
\* the next chapter is reached without any input of the player.
C35_ScriptsFollowChapterOrder ==
    /\ [][chapter' # chapter => chapter' = Successor(chapter)]_vars
    /\ (chapter = "INTRO") ~> (chapter = "CH1")
    /\ (chapter = "CH4") ~> (chapter = "CH5")

\* The last screen has been reached after two clicks on the start screen.
C35_Witness ==
    /\ chapter = "CH5"
    /\ script.mounted = "CH5"
    /\ script.clicks = 2
    /\ {"ch1_hallucination", "ch2_exit", "ch3_exit"} \subseteq visitedEvents

\* The phase changes of one run of the cutscene.
CutsceneOrder ==
    { <<"null", "elevator">>, <<"elevator", "space">>, <<"space", "returning">>,
      <<"returning", "null">> }

\* The last timers of the timer sequences in progress.
CutscenesInProgress == {t \in timers : t.kind = "cutscene" /\ t.arg = "null"}

\* C36: the cutscene phase of Ch3 only ever advances in the order elevator,
\* space, returning, none, and at most one cutscene timer sequence is in
\* progress at a time, whether the cutscene is started by walking into the
\* elevator cell or by the dev button.
C36_OneCutsceneInOrder ==
    /\ [][script'.cutscenePhase # script.cutscenePhase =>
            <<script.cutscenePhase, script'.cutscenePhase>> \in CutsceneOrder]_vars
    /\ [](Cardinality(CutscenesInProgress) <= 1)

\* A step of a chapter transition: the goToChapter call, or one of its two
\* timers firing.
TransitionStep ==
    \/ StoreCall("goToChapter")
    \/ \E t \in timers :
          /\ t.kind \in {"chapter", "fadeEnd"}
          /\ Due(t)
          /\ timers' = timers \ {t}
          /\ nOps' = nOps

\* C37: a chapter transition changes only chapter and isTransitioning:
\* goToChapter and its two timers leave visitedEvents, cartItems,
\* leftMovement, rightMovement, activeEffect, notification and any pending
\* effect auto-clear timer unchanged.
C37_TransitionKeepsTheRest ==
    [][TransitionStep =>
        /\ visitedEvents' = visitedEvents
        /\ cartItems' = cartItems
        /\ leftMovement' = leftMovement
        /\ rightMovement' = rightMovement
        /\ activeEffect' = activeEffect
        /\ notification' = notification
        /\ effectTimeoutId' = effectTimeoutId
        /\ {t \in timers' : t.kind = "effectClear"} = EffectClears]_vars

\* A transition has run to its end while an event id was visited and the
\* auto-clear timer of an effect was pending.
C37_Witness ==
    /\ lastGo.called
    /\ chapter = lastGo.to
    /\ ~isTransitioning
    /\ timers # {}
    /\ \A t \in timers : t.kind = "effectClear"
    /\ activeEffect # "null"
    /\ visitedEvents # {}

\* C38: in no reachable state is the chapter END: no scene script, dev
\* button or HUD button ever asks for a transition to END, and the screen of
\* Ch5 issues no goToChapter call at all: a call made while it is shown is a
\* click on the HUD or the door timer of Ch1 left pending.
C38_ChapterNeverEnd ==
    /\ [](chapter # "END")
    /\ [][StoreCall("goToChapter") => call'.arg # "END"]_vars
    /\ [][(StoreCall("goToChapter") /\ chapter = "CH5" /\ StoryReady) =>
            \/ script'.hud = script.hud + 1
            \/ \E t \in timers : t.kind = "door" /\ t \notin timers']_vars

\* The screen of Ch5 is shown and a chapter button of the HUD was clicked
\* over it.
C38_Witness ==
    /\ chapter = "CH5"
    /\ script.mounted = "CH5"
    /\ script.hud = 1
    /\ lastGo.called
    /\ lastGo.from = "CH5"

\* The screen of Ch5 has been shown for longer than any timer lasts and
\* nothing is pending.
C38_WitnessQuiet ==
    /\ chapter = "CH5"
    /\ script.mounted = "CH5"
    /\ timers = {}
    /\ lastGo.to = "CH5"
    /\ lastGo.since > FadeOutDelay

====
